---- MODULE Spec2Model ----
(***************************************************************************)
(* A model of the CodeVibe analysis core: language detection and analyzer  *)
(* dispatch (backend/analysis/language_analyzer.py), the static analyzers  *)
(* (python_analyzer.py, javascript_analyzer.py) and the auto-fix generator *)
(* (backend/services/auto_fixer.py).                                       *)
(*                                                                         *)
(* Python str values are TLA+ strings; the str methods the code uses (in,  *)
(* count, lower, rstrip, split, join) are operators computed character by  *)
(* character.  Each component has its own specification over its own       *)
(* variables; the variables of the other components stay at their initial  *)
(* values.                                                                 *)
(***************************************************************************)
EXTENDS Integers, Sequences, FiniteSets, TLC

VARIABLES
    \* language detection and analyzer dispatch
    dcode, dhint, dlang, danalyzer, dpc,
    \* one analyze(code) call of a static analyzer
    an_kind, an_code, an_pc, an_files, an_path, an_is_typescript, an_proc,
    an_result, an_exc,
    \* one AutoFixer instance: its counter, the analyze_code calls made on it one
    \* after another (the last call and the ids of every fix returned so far),
    \* and the callers that run analyze_code on it concurrently
    fix_counter, fx_calls, fx_code, fx_language, fx_fixes, fx_exc, fx_ids, th,
    \* apply_fix: a code, a fix, and the fix applied once and twice
    ap_code, ap_fix, ap_pc, ap_once, ap_twice,
    \* two fixes f, g of one analyze_code call, applied in both orders
    co_code, co_language, co_f, co_g, co_pc, co_fg, co_gf,
    \* a None-comparison fix of a code, applied, and the result validated
    nc_code, nc_fix, nc_pc, nc_fixed, nc_valid,
    \* the pattern scans of the ML engine on one code
    ml_code, ml_language, ml_pc, ml_bugs, ml_security,
    \* the shared MLEngine and its embedding model: ML_ENABLED, the engine's
    \* fields, the clock, the callers of get_code_embedding and the caller of
    \* cleanup
    en_enabled, en_is_loaded, en_model, en_tokenizer, en_last_used, en_now,
    en_ticks, en_loads, en_call, en_clean,
    \* the style_patterns table, and the update_user_profile calls made for
    \* each user
    sp_profile, sp_merges, sp_call,
    \* the pattern tables of the shared engine, and the scans run on it: how
    \* many, the last one's arguments and findings, and whether the model was
    \* loaded when it ran
    es_bug_patterns, es_security_patterns, es_scans, es_code, es_language,
    es_findings, es_loaded,
    \* submit_code: the requests made so far, the request in progress (its
    \* input, its position, the local names it has bound and their values),
    \* the committed rows of the database, those at the start of the request,
    \* and the response
    sb_count, sb_pc, sb_code, sb_hint, sb_locals, sb_lang, sb_static, sb_ml_bugs,
    sb_snippets, sb_results, sb_profile, sb_before, sb_response

detectVars == <<dcode, dhint, dlang, danalyzer, dpc>>

analyzeVars ==
    <<an_kind, an_code, an_pc, an_files, an_path, an_is_typescript, an_proc,
      an_result, an_exc>>

fixerVars ==
    <<fix_counter, fx_calls, fx_code, fx_language, fx_fixes, fx_exc, fx_ids, th>>

applyVars == <<ap_code, ap_fix, ap_pc, ap_once, ap_twice>>

composeVars == <<co_code, co_language, co_f, co_g, co_pc, co_fg, co_gf>>

noneFixVars == <<nc_code, nc_fix, nc_pc, nc_fixed, nc_valid>>

scanVars == <<ml_code, ml_language, ml_pc, ml_bugs, ml_security>>

engineVars ==
    <<en_enabled, en_is_loaded, en_model, en_tokenizer, en_last_used, en_now,
      en_ticks, en_loads, en_call, en_clean>>

styleVars == <<sp_profile, sp_merges, sp_call>>

engineScanVars ==
    <<es_bug_patterns, es_security_patterns, es_scans, es_code, es_language,
      es_findings, es_loaded>>

submitVars ==
    <<sb_count, sb_pc, sb_code, sb_hint, sb_locals, sb_lang, sb_static, sb_ml_bugs,
      sb_snippets, sb_results, sb_profile, sb_before, sb_response>>

vars == <<detectVars, analyzeVars, fixerVars, applyVars, composeVars, noneFixVars, scanVars, engineVars, styleVars, engineScanVars, submitVars>>

\* what the actions of one component leave alone
notDetect == <<analyzeVars, fixerVars, applyVars, composeVars, noneFixVars, scanVars, engineVars, styleVars, engineScanVars, submitVars>>
notAnalyze == <<detectVars, fixerVars, applyVars, composeVars, noneFixVars, scanVars, engineVars, styleVars, engineScanVars, submitVars>>
notFixer == <<detectVars, analyzeVars, applyVars, composeVars, noneFixVars, scanVars, engineVars, styleVars, engineScanVars, submitVars>>
notApply == <<detectVars, analyzeVars, fixerVars, composeVars, noneFixVars, scanVars, engineVars, styleVars, engineScanVars, submitVars>>
notCompose == <<detectVars, analyzeVars, fixerVars, applyVars, noneFixVars, scanVars, engineVars, styleVars, engineScanVars, submitVars>>
notNoneFix == <<detectVars, analyzeVars, fixerVars, applyVars, composeVars, scanVars, engineVars, styleVars, engineScanVars, submitVars>>
notScan == <<detectVars, analyzeVars, fixerVars, applyVars, composeVars, noneFixVars, engineVars, styleVars, engineScanVars, submitVars>>
notEngine == <<detectVars, analyzeVars, fixerVars, applyVars, composeVars, noneFixVars, scanVars, styleVars, engineScanVars, submitVars>>
notStyle == <<detectVars, analyzeVars, fixerVars, applyVars, composeVars, noneFixVars, scanVars, engineVars, engineScanVars, submitVars>>
notEngineScan == <<detectVars, analyzeVars, fixerVars, applyVars, composeVars, noneFixVars, scanVars, engineVars, styleVars, submitVars>>
notSubmit == <<detectVars, analyzeVars, fixerVars, applyVars, composeVars, noneFixVars, scanVars, engineVars, styleVars, engineScanVars>>

(***************************************************************************)
(* Python str operations                                                   *)
(***************************************************************************)

\* s[i] (1-based), as a one-character string
CharAt(s, i) == SubSeq(s, i, i)

\* `p in s`
Contains(s, p) ==
    \E i \in 1..(Len(s) - Len(p) + 1) : SubSeq(s, i, i + Len(p) - 1) = p

\* s.startswith(p)
StartsWith(s, p) == Len(p) <= Len(s) /\ SubSeq(s, 1, Len(p)) = p

\* s.count(p) for a non-empty p: non-overlapping occurrences, left to right
RECURSIVE Count(_, _)
Count(s, p) ==
    IF Len(s) < Len(p) THEN 0
    ELSE IF StartsWith(s, p) THEN 1 + Count(SubSeq(s, Len(p) + 1, Len(s)), p)
    ELSE Count(Tail(s), p)

UpperLetters == "ABCDEFGHIJKLMNOPQRSTUVWXYZ"
LowerLetters == "abcdefghijklmnopqrstuvwxyz"

\* c.lower() for one character
LowerChar(c) ==
    IF \E i \in 1..Len(UpperLetters) : CharAt(UpperLetters, i) = c
    THEN CharAt(LowerLetters, CHOOSE i \in 1..Len(UpperLetters) : CharAt(UpperLetters, i) = c)
    ELSE c

\* s.lower()
RECURSIVE Lower(_)
Lower(s) == IF s = "" THEN "" ELSE LowerChar(Head(s)) \o Lower(Tail(s))

\* the characters str.rstrip() and str.lstrip() remove
Whitespace == {" ", "\t", "\n", "\r", "\f"}

\* s.rstrip()
RECURSIVE RStrip(_)
RStrip(s) ==
    IF s # "" /\ CharAt(s, Len(s)) \in Whitespace
    THEN RStrip(SubSeq(s, 1, Len(s) - 1))
    ELSE s

\* s.lstrip()
RECURSIVE LStrip(_)
LStrip(s) == IF s # "" /\ Head(s) \in Whitespace THEN LStrip(Tail(s)) ELSE s

\* s.strip()
Strip(s) == LStrip(RStrip(s))

\* s.split('\n'): always at least one piece
RECURSIVE SplitFrom(_, _)
SplitFrom(s, cur) ==
    IF s = "" THEN <<cur>>
    ELSE IF Head(s) = "\n" THEN <<cur>> \o SplitFrom(Tail(s), "")
    ELSE SplitFrom(Tail(s), cur \o Head(s))

Split(s) == SplitFrom(s, "")

\* '\n'.join(lines)
RECURSIVE Join(_)
Join(lines) ==
    IF Len(lines) = 0 THEN ""
    ELSE IF Len(lines) = 1 THEN lines[1]
    ELSE lines[1] \o "\n" \o Join(Tail(lines))

\* the concatenations of at most n strings of `pool`
RECURSIVE Concats(_, _)
Concats(pool, n) ==
    IF n = 0 THEN {""}
    ELSE LET shorter == Concats(pool, n - 1)
         IN  shorter \cup {s \o f : s \in shorter, f \in pool}

\* s[a-1:b] of Python for 1 <= a: the characters a..b that exist
Slice(s, a, b) ==
    LET hi == IF b > Len(s) THEN Len(s) ELSE b
    IN  IF a > hi THEN "" ELSE SubSeq(s, a, hi)

\* s[a-1:]
From(s, a) == Slice(s, a, Len(s))

\* whether p occurs in s at position i
At(s, i, p) == Slice(s, i, i + Len(p) - 1) = p

\* n spaces
RECURSIVE Spaces(_)
Spaces(n) == IF n = 0 THEN "" ELSE " " \o Spaces(n - 1)

Digits == "0123456789"

\* str(n) for n >= 0, as an f-string formats it
RECURSIVE ToStr(_)
ToStr(n) ==
    IF n < 10 THEN CharAt(Digits, n + 1)
    ELSE ToStr(n \div 10) \o CharAt(Digits, (n % 10) + 1)

\* int(s) for a string of decimal digits
RECURSIVE ToInt(_)
ToInt(s) ==
    IF s = "" THEN 0
    ELSE 10 * ToInt(SubSeq(s, 1, Len(s) - 1))
         + (CHOOSE d \in 0..9 : CharAt(Digits, d + 1) = CharAt(s, Len(s)))

\* the characters \w matches
WordChars ==
    {CharAt(UpperLetters, i) : i \in 1..Len(UpperLetters)}
    \cup {CharAt(LowerLetters, i) : i \in 1..Len(LowerLetters)}
    \cup {CharAt(Digits, i) : i \in 1..Len(Digits)} \cup {"_"}

\* the length of the longest run of characters of `set` in s from position i
RECURSIVE Run(_, _, _)
Run(s, i, set) ==
    IF i <= Len(s) /\ CharAt(s, i) \in set THEN 1 + Run(s, i + 1, set) ELSE 0

\* pattern.search(s): MatchLen(s, i) is the length of the match at i, 0 for none
Search(s, MatchLen(_, _)) == \E i \in 1..Len(s) : MatchLen(s, i) > 0

\* pattern.sub(repl, s): the matches replaced left to right, without overlap
RECURSIVE SubFrom(_, _, _, _)
SubFrom(s, i, MatchLen(_, _), repl) ==
    IF i > Len(s) THEN ""
    ELSE IF MatchLen(s, i) > 0
    THEN repl \o SubFrom(s, i + MatchLen(s, i), MatchLen, repl)
    ELSE CharAt(s, i) \o SubFrom(s, i + 1, MatchLen, repl)

Sub(s, MatchLen(_, _), repl) == SubFrom(s, 1, MatchLen, repl)

(***************************************************************************)
(* Language detection and analyzer dispatch (language_analyzer.py)         *)
(***************************************************************************)

\* class Language(str, Enum): the values
Language == {"python", "javascript", "typescript", "java", "cpp"}

\* an optional str argument: None is [some |-> FALSE]
None == [some |-> FALSE, val |-> ""]
Some(s) == [some |-> TRUE, val |-> s]

\* Python truthiness of an optional str
Truthy(o) == o.some /\ o.val # ""

detect_rules_AndBinds(code_content) ==
    IF (Contains(code_content, "def ") \/ Contains(code_content, "import ")
        \/ Contains(code_content, "class ")) /\ Contains(code_content, ":")
    THEN "python"
    ELSE IF Contains(code_content, "function ") \/ Contains(code_content, "const ")
            \/ Contains(code_content, "let ") \/ Contains(code_content, "var ")
    THEN IF (Contains(code_content, "interface ") \/ Contains(code_content, ": "))
            /\ Contains(code_content, "=>")
         THEN "typescript"
         ELSE "javascript"
    ELSE IF Contains(code_content, "public class ") \/ Contains(code_content, "private ")
            \/ Contains(code_content, "void main")
    THEN "java"
    ELSE IF Contains(code_content, "#include") \/ Contains(code_content, "std::")
            \/ Contains(code_content, "cout")
    THEN "cpp"
    ELSE "python"

\* the substring rules of detect_language, first match wins; `and` binds
\* tighter than `or` in the two mixed conditions
detect_rules(code_content) ==
    IF Contains(code_content, "def ") \/ Contains(code_content, "import ")
       \/ (Contains(code_content, "class ") /\ Contains(code_content, ":"))
    THEN "python"
    ELSE IF Contains(code_content, "function ") \/ Contains(code_content, "const ")
            \/ Contains(code_content, "let ") \/ Contains(code_content, "var ")
    THEN IF Contains(code_content, "interface ")
            \/ (Contains(code_content, ": ") /\ Contains(code_content, "=>"))
         THEN "typescript"
         ELSE "javascript"
    ELSE IF Contains(code_content, "public class ") \/ Contains(code_content, "private ")
            \/ Contains(code_content, "void main")
    THEN "java"
    ELSE IF Contains(code_content, "#include") \/ Contains(code_content, "std::")
            \/ Contains(code_content, "cout")
    THEN "cpp"
    ELSE "python"

detect_language_NoLower(code_content, hint) ==
    IF Truthy(hint) /\ hint.val \in Language THEN hint.val
    ELSE detect_rules(code_content)

\* detect_language(code_content, hint): Language(hint.lower()) when the hint is
\* truthy and names a Language (the ValueError of any other hint is swallowed),
\* else the substring rules
detect_language(code_content, hint) ==
    IF Truthy(hint) /\ Lower(hint.val) \in Language THEN Lower(hint.val)
    ELSE detect_rules(code_content)

\* the analyzers dict of get_analyzer
analyzers ==
    [l \in {"python", "javascript", "typescript"} |->
        IF l = "python" THEN "PythonAnalyzer" ELSE "JavaScriptAnalyzer"]

get_analyzer_Fallback(language) ==
    IF language \in DOMAIN analyzers THEN analyzers[language] ELSE "PythonAnalyzer"

\* get_analyzer(language): the analyzer class, or the ValueError it raises
get_analyzer(language) ==
    IF language \in DOMAIN analyzers THEN analyzers[language] ELSE "ValueError"

\* the longest code is MaxFrags fragments long
MaxFrags == 2

\* pieces of code: every marker detect_language looks for, and a filler
DetectFragments ==
    {"def ", "import ", "class ", ":", "function ", "const ", "let ", "var ",
     "interface ", ": ", "=>", "public class ", "private ", "void main",
     "#include", "std::", "cout", "x"}

DetectHints ==
    {None, Some(""), Some("Python"), Some("JAVA"), Some("cpp"),
     Some("TypeScript"), Some("javascript"), Some("ruby")}

DetectInit ==
    /\ dcode \in Concats(DetectFragments, MaxFrags)
    /\ dhint \in DetectHints
    /\ dlang = ""
    /\ danalyzer = ""
    /\ dpc = "start"

\* no detection in progress: the state of this part in the other specifications
DetectIdle ==
    /\ dcode = ""
    /\ dhint = None
    /\ dlang = ""
    /\ danalyzer = ""
    /\ dpc = "start"

\* a caller's detect_language(code, hint=...)
DetectLanguage ==
    /\ dpc = "start"
    /\ dlang' = detect_language(dcode, dhint)
    /\ dpc' = "detected"
    /\ UNCHANGED <<dcode, dhint, danalyzer, notDetect>>

\* the caller's get_analyzer(detected_lang)
GetAnalyzer ==
    /\ dpc = "detected"
    /\ danalyzer' = get_analyzer(dlang)
    /\ dpc' = "done"
    /\ UNCHANGED <<dcode, dhint, dlang, notDetect>>

DetectNext == DetectLanguage \/ GetAnalyzer

(***************************************************************************)
(* The static analyzers (python_analyzer.py, javascript_analyzer.py)       *)
(***************************************************************************)

\* dict.get(key, default)
Get(d, key, default) == IF key \in DOMAIN d THEN d[key] ELSE default

\* the empty dict
EmptyDict == [k \in {} |-> 0]

\* AnalysisResult(): the fields after construction
AnalysisResult ==
    [issues |-> <<>>, complexity_metrics |-> EmptyDict, language |-> "", error |-> ""]

\* the number of lines of `lines` that are neither blank nor start with `mark`
CodeLines(lines, mark) ==
    Cardinality({i \in 1..Len(lines) :
                    Strip(lines[i]) # "" /\ ~StartsWith(Strip(lines[i]), mark)})

\* PythonAnalyzer.calculate_complexity
PyComplexity(code_content) ==
    LET lines == Split(code_content)
        num_conditionals == Count(code_content, "if ") + Count(code_content, "elif ")
        num_loops == Count(code_content, "for ") + Count(code_content, "while ")
    IN  [total_lines |-> Len(lines),
         code_lines |-> CodeLines(lines, "#"),
         num_functions |-> Count(code_content, "def "),
         num_classes |-> Count(code_content, "class "),
         num_imports |-> Count(code_content, "import "),
         cyclomatic_complexity |-> 1 + num_conditionals + num_loops,
         num_conditionals |-> num_conditionals,
         num_loops |-> num_loops]

\* _is_typescript as it would be with the rule detect_language refines by
IsTypescript_DetectorRule(code_content) ==
    Contains(code_content, "interface ")
    \/ (Contains(code_content, ": ") /\ Contains(code_content, "=>"))

\* JavaScriptAnalyzer._is_typescript
IsTypescript(code_content) ==
    \E indicator \in {"interface ", "type ", ": string", ": number", ": boolean",
                      "<T>", "as ", "enum "} : Contains(code_content, indicator)

\* JavaScriptAnalyzer.calculate_complexity; is_typescript is self.is_typescript
JsComplexity(code_content, is_typescript) ==
    LET lines == Split(code_content)
        num_conditionals ==
            Count(code_content, "if ") + Count(code_content, "else if")
            + Count(code_content, "switch") + Count(code_content, "case ")
        num_loops ==
            Count(code_content, "for ") + Count(code_content, "while ")
            + Count(code_content, ".map(") + Count(code_content, ".forEach(")
            + Count(code_content, ".filter(")
        metrics ==
            [total_lines |-> Len(lines),
             code_lines |-> CodeLines(lines, "//"),
             num_functions |-> Count(code_content, "function ")
                               + Count(code_content, "=>")
                               + Count(code_content, "async "),
             num_classes |-> Count(code_content, "class "),
             num_imports |-> Count(code_content, "import ")
                             + Count(code_content, "require("),
             cyclomatic_complexity |-> 1 + num_conditionals + num_loops,
             num_conditionals |-> num_conditionals,
             num_loops |-> num_loops]
    IN  IF is_typescript
        THEN [k \in DOMAIN metrics \cup {"num_interfaces", "num_types"} |->
                IF k = "num_interfaces" THEN Count(code_content, "interface ")
                ELSE IF k = "num_types" THEN Count(code_content, "type ")
                ELSE metrics[k]]
        ELSE metrics

\* PythonAnalyzer._map_severity
PyMapSeverity(issue_type) ==
    LET severity_map ==
            [t \in {"error", "warning", "refactor", "convention", "fatal"} |->
                IF t \in {"error", "fatal"} THEN "error"
                ELSE IF t = "warning" THEN "warning" ELSE "info"]
    IN  Get(severity_map, Lower(issue_type), "info")

\* PythonAnalyzer._format_issues
PyFormatIssues(pylint_issues) ==
    [i \in 1..Len(pylint_issues) |->
        LET issue == pylint_issues[i]
        IN  [type |-> Get(issue, "type", "unknown"),
             symbol |-> Get(issue, "symbol", ""),
             message |-> Get(issue, "message", ""),
             line |-> Get(issue, "line", 0),
             column |-> Get(issue, "column", 0),
             severity |-> PyMapSeverity(Get(issue, "type", ""))]]

\* JavaScriptAnalyzer._map_severity
JsMapSeverity(severity) ==
    LET severity_map ==
            [n \in {0, 1, 2} |->
                IF n = 0 THEN "info" ELSE IF n = 1 THEN "warning" ELSE "error"]
    IN  Get(severity_map, severity, "info")

\* JavaScriptAnalyzer._format_issues
JsFormatIssues(eslint_messages) ==
    [i \in 1..Len(eslint_messages) |->
        LET msg == eslint_messages[i]
        IN  [type |-> Get(msg, "ruleId", "unknown"),
             symbol |-> Get(msg, "ruleId", ""),
             message |-> Get(msg, "message", ""),
             line |-> Get(msg, "line", 0),
             column |-> Get(msg, "column", 0),
             severity |-> JsMapSeverity(Get(msg, "severity", 1))]]

(* What subprocess.run did.  how is "completed" (stdout holds the captured    *)
(* output), or the exception raised: "TimeoutExpired", "FileNotFoundError",   *)
(* or "OSError" with its message.  The captured output is kept parsed:        *)
(* json is "empty" (no output at all), "invalid" (json.loads raises           *)
(* JSONDecodeError), "list" (a JSON array, its elements in items) or          *)
(* "number" (valid JSON of another shape).                                    *)
Proc(how, json, items, msg) == [how |-> how, json |-> json, items |-> items, msg |-> msg]

NoProc == Proc("", "empty", <<>>, "")

PylintIssues ==
    {[type |-> "error", symbol |-> "undefined-variable", message |-> "m", line |-> 2, column |-> 4],
     [type |-> "Convention", symbol |-> "invalid-name", message |-> "m", line |-> 1, column |-> 0],
     [symbol |-> "syntax-error"]}

EslintMessages ==
    {[ruleId |-> "eqeqeq", message |-> "m", line |-> 1, column |-> 3, severity |-> 2],
     [ruleId |-> "no-var", message |-> "m", line |-> 2, column |-> 1, severity |-> 0],
     [message |-> "Parsing error"]}

\* the outcomes of the linter process for an analyzer of kind k
LinterOutcomes(k) ==
    LET raw == IF k = "python" THEN PylintIssues ELSE EslintMessages
        lists == {<<>>} \cup {<<r>> : r \in raw}
        payloads ==
            IF k = "python" THEN lists
            ELSE {<<>>, <<[filePath |-> "f"]>>} \cup {<<[messages |-> l]>> : l \in lists}
    IN  {Proc("completed", "empty", <<>>, ""),
         Proc("completed", "invalid", <<>>, ""),
         Proc("completed", "number", <<>>, ""),
         Proc("TimeoutExpired", "empty", <<>>, ""),
         Proc("FileNotFoundError", "empty", <<>>, ""),
         Proc("OSError", "empty", <<>>, "[Errno 13] Permission denied")}
        \cup {Proc("completed", "list", l, "") : l \in payloads}

\* what a try block leaves: the result, and the exception that escapes it
Caught(result) == [result |-> result, exc |-> ""]

PyTry_NoTimeoutClause(result, code_content, proc) ==
    IF proc.how = "TimeoutExpired"
    THEN Caught([result EXCEPT !.error = "Command 'pylint' timed out after 30 seconds"])
    ELSE IF proc.how = "FileNotFoundError"
    THEN Caught([result EXCEPT !.error = "Pylint not installed. Install with: pip install pylint"])
    ELSE IF proc.how # "completed" THEN Caught([result EXCEPT !.error = proc.msg])
    ELSE Caught([result EXCEPT !.complexity_metrics = PyComplexity(code_content)])

\* the try block of PythonAnalyzer.analyze with its except clauses, the process
\* having ended as `proc`; complexity is computed after the output is parsed
PyTry(result, code_content, proc) ==
    IF proc.how = "TimeoutExpired"
    THEN Caught([result EXCEPT !.error = "Analysis timed out"])
    ELSE IF proc.how = "FileNotFoundError"
    THEN Caught([result EXCEPT !.error = "Pylint not installed. Install with: pip install pylint"])
    ELSE IF proc.how # "completed"
    THEN \* except Exception as e: str(e)
         Caught([result EXCEPT !.error = proc.msg])
    ELSE IF proc.json = "empty"
    THEN Caught([result EXCEPT !.complexity_metrics = PyComplexity(code_content)])
    ELSE IF proc.json = "invalid"
    THEN Caught([result EXCEPT !.error = "Failed to parse pylint output",
                                !.complexity_metrics = PyComplexity(code_content)])
    ELSE IF proc.json = "number"
    THEN \* _format_issues raises TypeError, caught by `except Exception`
         Caught([result EXCEPT !.error = "'int' object is not iterable"])
    ELSE Caught([result EXCEPT !.issues = PyFormatIssues(proc.items),
                                !.complexity_metrics = PyComplexity(code_content)])

\* the try block of JavaScriptAnalyzer.analyze with its except clauses
JsTry(result, code_content, is_typescript, proc) ==
    IF proc.how = "TimeoutExpired"
    THEN Caught([result EXCEPT !.error = "Analysis timed out"])
    ELSE IF proc.how = "FileNotFoundError"
    THEN Caught([result EXCEPT !.error = "ESLint not found. Install with: npm install -g eslint"])
    ELSE IF proc.how # "completed"
    THEN Caught([result EXCEPT !.error = proc.msg])
    ELSE IF proc.json = "empty"
    THEN Caught([result EXCEPT
                    !.complexity_metrics = JsComplexity(code_content, is_typescript)])
    ELSE IF proc.json = "invalid"
    THEN Caught([result EXCEPT
                    !.error = "Failed to parse ESLint output",
                    !.complexity_metrics = JsComplexity(code_content, is_typescript)])
    ELSE IF proc.json = "number"
    THEN \* len(eslint_results) raises TypeError, caught by `except Exception`
         Caught([result EXCEPT !.error = "object of type 'int' has no len()"])
    ELSE Caught([result EXCEPT
                    !.issues = IF Len(proc.items) > 0
                               THEN JsFormatIssues(Get(proc.items[1], "messages", <<>>))
                               ELSE result.issues,
                    !.complexity_metrics = JsComplexity(code_content, is_typescript)])

\* the longest analyzed code has MaxAnLines lines
MaxAnLines == 2

AnalyzerLinePool ==
    {"", "def f(x):", "    if x: pass", "# for a in b:", "import os", "class A:",
     "for (const a of b) { if (a) {} }", "interface A {}", "xs.map(x => x)",
     "// switch"}

\* the sequences of at most n lines of `pool`
RECURSIVE LineSeqs(_, _)
LineSeqs(pool, n) ==
    IF n = 0 THEN {<<>>}
    ELSE LET shorter == LineSeqs(pool, n - 1)
         IN  shorter \cup {Append(ls, l) : ls \in shorter, l \in pool}

AnalyzerCodes == {Join(ls) : ls \in LineSeqs(AnalyzerLinePool, MaxAnLines)}

AnalyzeIdle ==
    /\ an_kind = "python"
    /\ an_code = ""
    /\ an_pc = "start"
    /\ an_files = {}
    /\ an_path = ""
    /\ an_is_typescript = FALSE
    /\ an_proc = NoProc
    /\ an_result = AnalysisResult
    /\ an_exc = ""

\* an analyzer from get_analyzer, about to analyze some code; no temporary
\* file of this call exists yet
AnalyzeInit ==
    /\ an_kind \in {"python", "javascript"}
    /\ an_code \in AnalyzerCodes
    /\ an_pc = "start"
    /\ an_files = {}
    /\ an_path = ""
    /\ an_is_typescript = FALSE
    /\ an_proc = NoProc
    /\ an_result = AnalysisResult
    /\ an_exc = ""

\* the name NamedTemporaryFile gives the file, by its suffix
TempName == "tmp" \o (IF an_kind = "python" THEN ".py"
                      ELSE IF an_is_typescript THEN ".ts" ELSE ".js")

\* analyze: the lines before the with statement
AnBegin ==
    /\ an_pc = "start"
    /\ an_is_typescript' = (an_kind = "javascript" /\ IsTypescript(an_code))
    /\ an_result' =
        [AnalysisResult EXCEPT
            !.language = IF an_kind = "python" THEN "python"
                         ELSE IF IsTypescript(an_code) THEN "typescript"
                         ELSE "javascript"]
    /\ an_pc' = "begun"
    /\ UNCHANGED <<an_kind, an_code, an_files, an_path, an_proc, an_exc, notAnalyze>>

\* NamedTemporaryFile(mode='w', suffix=..., delete=False) creates the file
AnCreateTemp ==
    /\ an_pc = "begun"
    /\ an_files' = an_files \cup {TempName}
    /\ an_pc' = "open"
    /\ UNCHANGED <<an_kind, an_code, an_path, an_is_typescript, an_proc, an_result, an_exc, notAnalyze>>

\* ... or fails to: nothing is created and the error leaves analyze
AnCreateTempFails ==
    /\ an_pc = "begun"
    /\ an_exc' = "OSError"
    /\ an_pc' = "raised"
    /\ UNCHANGED <<an_kind, an_code, an_files, an_path, an_is_typescript, an_proc, an_result, notAnalyze>>

\* temp_file.write(code_content); temp_file_path = temp_file.name; the with
\* statement closes the file
AnWrite ==
    /\ an_pc = "open"
    /\ an_path' = TempName
    /\ an_pc' = "staged"
    /\ UNCHANGED <<an_kind, an_code, an_files, an_is_typescript, an_proc, an_result, an_exc, notAnalyze>>

\* the write (or the close that flushes it) raises: the with statement closes
\* the file, which delete=False keeps, and the error leaves analyze before its
\* try statement is entered
AnWriteFails ==
    /\ an_pc = "open"
    /\ \E e \in {"UnicodeEncodeError", "OSError"} : an_exc' = e
    /\ an_pc' = "raised"
    /\ UNCHANGED <<an_kind, an_code, an_files, an_path, an_is_typescript, an_proc, an_result, notAnalyze>>

\* the try block: subprocess.run ends as some outcome, then parsing, metrics
\* and the except clauses
AnRunLinter ==
    /\ an_pc = "staged"
    /\ \E proc \in LinterOutcomes(an_kind) :
        LET t == IF an_kind = "python" THEN PyTry(an_result, an_code, proc)
                 ELSE JsTry(an_result, an_code, an_is_typescript, proc)
        IN  /\ an_proc' = proc
            /\ an_result' = t.result
            /\ an_exc' = t.exc
    /\ an_pc' = "finally"
    /\ UNCHANGED <<an_kind, an_code, an_files, an_path, an_is_typescript, notAnalyze>>

\* the finally block, then `return result` or the escaping exception
AnCleanup ==
    /\ an_pc = "finally"
    /\ an_files' = IF an_path \in an_files THEN an_files \ {an_path} ELSE an_files
    /\ an_pc' = IF an_exc = "" THEN "returned" ELSE "raised"
    /\ UNCHANGED <<an_kind, an_code, an_path, an_is_typescript, an_proc, an_result, an_exc, notAnalyze>>

AnalyzeNext ==
    \/ AnBegin
    \/ AnCreateTemp
    \/ AnCreateTempFails
    \/ AnWrite
    \/ AnWriteFails
    \/ AnRunLinter
    \/ AnCleanup

(***************************************************************************)
(* ast.parse, as far as the auto-fixer looks at its result                 *)
(*                                                                         *)
(* The fixer asks three things of ast.parse(code): whether it raises       *)
(* SyntaxError, which names the import statements bind (with their lines), *)
(* and which function and class definitions lack a docstring.  The model   *)
(* answers them for code made of the statement forms below, one statement  *)
(* per line, blocks indented by four spaces: every import and definition   *)
(* is then a top-level statement, which ast.walk yields in source order.   *)
(***************************************************************************)

\* one-line statements at column 0
PySimpleStmts ==
    {"x = 1", "y = 2", "ys = []", "print(os.name)", "import os", "import sys",
     "import numpy as np", "from os import path", "def f(): pass", "class A: pass",
     "if x == None: pass", "if None == x: pass", "if x is None: pass",
     "if x==None: pass", "if f(x) == None: pass", "if f(x) is None: pass",
     "x = None==None", "a ==b == c", "path = 1", "var_x = avar; var"}

\* column-0 lines that open a block on the following lines
PyOpeners == {"for i in xs:", "for (a, b) in ps:", "def g():", "class B:"}

\* statements of a block, after their four spaces of indentation
PyBodyStmts ==
    {"x = 1", "ys.append(i)", "ys.append(a)", "ys.append()", "ys.append(f(i)) # )",
     "pass", "\"\"\"doc\"\"\""}

\* how the parser sees one physical line (trailing whitespace never matters)
PyLineKind(line) ==
    LET t == RStrip(line)
    IN  IF t = "" THEN "blank"
        ELSE IF StartsWith(t, "    ")
        THEN IF From(t, 5) \in PyBodyStmts THEN "indented" ELSE "invalid"
        ELSE IF t = "try: pass" THEN "try"
        ELSE IF t \in {"except: pass", "except   : pass", "except Exception: pass"}
        THEN "except"
        ELSE IF t \in PyOpeners THEN "opener"
        ELSE IF t \in PySimpleStmts THEN "simple"
        ELSE "invalid"

\* whether lines i.. parse, the parser being in `state`: "top" (a statement at
\* column 0 is expected), "need_body" (an opener's block must follow), "in_body"
\* (inside a block), "after_try" (an except clause must follow) or
\* "after_except" (a further except clause may follow; that a bare except must
\* be the last one is checked by the compiler, not by ast.parse)
RECURSIVE PyParsesFrom(_, _, _)
PyParsesFrom(lines, i, state) ==
    IF i > Len(lines) THEN state \in {"top", "in_body", "after_except"}
    ELSE LET kind == PyLineKind(lines[i])
         IN  IF kind = "blank" THEN PyParsesFrom(lines, i + 1, state)
             ELSE IF kind = "invalid" THEN FALSE
             ELSE IF state = "need_body"
             THEN kind = "indented" /\ PyParsesFrom(lines, i + 1, "in_body")
             ELSE IF state = "after_try"
             THEN kind = "except" /\ PyParsesFrom(lines, i + 1, "after_except")
             ELSE IF kind = "except"
             THEN state = "after_except" /\ PyParsesFrom(lines, i + 1, "after_except")
             ELSE IF kind = "indented"
             THEN state = "in_body" /\ PyParsesFrom(lines, i + 1, "in_body")
             ELSE IF kind = "simple" THEN PyParsesFrom(lines, i + 1, "top")
             ELSE IF kind = "opener" THEN PyParsesFrom(lines, i + 1, "need_body")
             ELSE IF kind = "try" THEN PyParsesFrom(lines, i + 1, "after_try")
             ELSE FALSE

\* ast.parse(code) does not raise SyntaxError
PyParses(code) == PyParsesFrom(Split(code), 1, "top")

\* a TLA+ string holds no lone surrogate: these six characters stand for the
\* one character U+D800, as in the str "x = '\ud800'"
Surrogate == "\\ud800"

\* code.encode('utf-8'), which compile() does before it parses, succeeds
PyEncodes(code) == ~Contains(code, Surrogate)

\* ast.parse(code): "tree" when it returns one, else the exception it raises
ast_parse(code) ==
    IF ~PyEncodes(code) THEN "UnicodeEncodeError"
    ELSE IF PyParses(code) THEN "tree"
    ELSE "SyntaxError"

\* the text of s up to the first character of `stops`, or all of it
UpTo(s, stops) ==
    LET n == Run(s, 1, {CharAt(s, i) : i \in 1..Len(s)} \ stops)
    IN  Slice(s, 1, n)

\* alias.name of the import statement on a line ("" when it is none): the
\* module of `import m` and `import m as a`, the name of `from m import n`
PyImportName(line) ==
    LET t == RStrip(line)
    IN  IF StartsWith(t, "import ") THEN UpTo(From(t, 8), {" "})
        ELSE IF StartsWith(t, "from ") /\ Contains(t, " import ")
        THEN LET k == CHOOSE k \in 1..Len(t) : At(t, k, " import ")
                                /\ \A j \in 1..(k - 1) : ~At(t, j, " import ")
             IN  UpTo(From(t, k + 8), {" "})
        ELSE ""

\* the (alias.name, node.lineno) pairs of the Import and ImportFrom nodes
RECURSIVE PyImportsFrom(_, _)
PyImportsFrom(lines, i) ==
    IF i > Len(lines) THEN <<>>
    ELSE (IF PyLineKind(lines[i]) = "simple" /\ PyImportName(lines[i]) # ""
          THEN <<[name |-> PyImportName(lines[i]), lineno |-> i]>>
          ELSE <<>>) \o PyImportsFrom(lines, i + 1)

\* the first line after i that is not blank, 0 when there is none
RECURSIVE NextCodeLine(_, _)
NextCodeLine(lines, i) ==
    IF i + 1 > Len(lines) THEN 0
    ELSE IF PyLineKind(lines[i + 1]) # "blank" THEN i + 1
    ELSE NextCodeLine(lines, i + 1)

\* the FunctionDef and ClassDef nodes: name, lineno, and whether the first
\* statement of the body is a string expression
RECURSIVE PyDefsFrom(_, _)
PyDefsFrom(lines, i) ==
    IF i > Len(lines) THEN <<>>
    ELSE LET t == RStrip(lines[i])
             is_def == StartsWith(t, "def ")
             is_class == StartsWith(t, "class ")
             body == IF PyLineKind(lines[i]) = "simple"
                     THEN LStrip(From(t, Len(UpTo(t, {":"})) + 2))
                     ELSE LStrip(lines[NextCodeLine(lines, i)])
             node == [name |-> IF is_def THEN UpTo(From(t, 5), {"("})
                               ELSE UpTo(From(t, 7), {":", "("}),
                      lineno |-> i,
                      is_function |-> is_def,
                      has_docstring |-> StartsWith(body, "\"")]
         IN  (IF is_def \/ is_class THEN <<node>> ELSE <<>>)
             \o PyDefsFrom(lines, i + 1)

(***************************************************************************)
(* The auto-fix generator (services/auto_fixer.py)                         *)
(*                                                                         *)
(* confidence is kept in tenths (9 is 0.9).  A detector is modelled by its  *)
(* hits, in the order it finds them: at each hit the code runs             *)
(* `self.fix_counter += 1` and then, unless the hit turns out to give no   *)
(* suggestion, builds a FixSuggestion whose fix_id reads the counter.      *)
(***************************************************************************)

\* AutoFixer._generate_diff (line_no is not used by the code either)
generate_diff(before, after) ==
    IF after = "" THEN "- " \o before
    ELSE IF before = after THEN "  " \o before
    ELSE "- " \o before \o "\n+ " \o after

\* FixSuggestion as it would be if every suggestion were marked auto-applicable
FixSuggestion_AllAuto(fix_type, title, description, line_start, line_end, before, after, confidence, auto_applicable) ==
    [fix_id |-> "", fix_type |-> fix_type, title |-> title,
     description |-> description, line_start |-> line_start, line_end |-> line_end,
     before_code |-> before, after_code |-> after,
     diff |-> generate_diff(before, after),
     confidence |-> confidence, auto_applicable |-> TRUE]

\* a FixSuggestion whose fix_id is still to be read from the counter
FixSuggestion(fix_type, title, description, line_start, line_end, before, after, confidence, auto_applicable) ==
    [fix_id |-> "", fix_type |-> fix_type, title |-> title,
     description |-> description, line_start |-> line_start, line_end |-> line_end,
     before_code |-> before, after_code |-> after,
     diff |-> generate_diff(before, after),
     confidence |-> confidence, auto_applicable |-> auto_applicable]

\* a hit that builds the suggestion, and one that only advances the counter
Emit(fix) == [emits |-> TRUE, fix |-> fix]
Skip == [emits |-> FALSE, fix |-> FixSuggestion("", "", "", 0, 0, "", "", 0, FALSE)]

\* sum(1 for line in lines if import_name in line)
UsageCount(lines, import_name) ==
    Cardinality({i \in 1..Len(lines) : Contains(lines[i], import_name)})

RECURSIVE UnusedImportHits(_, _)
UnusedImportHits(lines, imports) ==
    IF imports = <<>> THEN <<>>
    ELSE LET import_name == Head(imports).name
             line_no == Head(imports).lineno
         IN  (IF UsageCount(lines, import_name) = 1
              THEN <<Emit(FixSuggestion(
                        "simple",
                        "Remove unused import '" \o import_name \o "'",
                        "Import '" \o import_name \o "' is not used in the code",
                        line_no, line_no, lines[line_no], "", 9, TRUE))>>
              ELSE <<>>) \o UnusedImportHits(lines, Tail(imports))

\* AutoFixer._fix_unused_imports: nothing when the code does not parse
fix_unused_imports(code, lines) ==
    IF PyParses(code) THEN UnusedImportHits(lines, PyImportsFrom(lines, 1)) ELSE <<>>

\* AutoFixer._fix_trailing_whitespace, from line i on
RECURSIVE fix_trailing_whitespace_from(_, _)
fix_trailing_whitespace_from(lines, i) ==
    IF i > Len(lines) THEN <<>>
    ELSE (IF lines[i] # RStrip(lines[i])
          THEN <<Emit(FixSuggestion(
                    "style",
                    "Remove trailing whitespace on line " \o ToStr(i),
                    "Trailing whitespace should be removed",
                    i, i, lines[i], RStrip(lines[i]), 10, TRUE))>>
          ELSE <<>>) \o fix_trailing_whitespace_from(lines, i + 1)

fix_trailing_whitespace(lines) == fix_trailing_whitespace_from(lines, 1)

RECURSIVE MissingDocstringHits(_, _)
MissingDocstringHits(lines, nodes) ==
    IF nodes = <<>> THEN <<>>
    ELSE LET node == Head(nodes)
             before == lines[node.lineno]
             indent == Len(before) - Len(LStrip(before))
             docstring ==
                Spaces(indent + 4)
                \o (IF node.is_function
                    THEN "\"\"\"TODO: Add function description\"\"\""
                    ELSE "\"\"\"TODO: Add class description\"\"\"")
         IN  (IF ~node.has_docstring
              THEN <<Emit(FixSuggestion(
                        "style",
                        "Add docstring to " \o node.name,
                        (IF node.is_function THEN "Function" ELSE "Class")
                            \o " '" \o node.name \o "' is missing a docstring",
                        node.lineno, node.lineno, before,
                        before \o "\n" \o docstring, 8, FALSE))>>
              ELSE <<>>) \o MissingDocstringHits(lines, Tail(nodes))

\* AutoFixer._fix_missing_docstrings: nothing when the code does not parse
fix_missing_docstrings(code, lines) ==
    IF PyParses(code) THEN MissingDocstringHits(lines, PyDefsFrom(lines, 1)) ELSE <<>>

\* r'==\s*None|None\s*==' at position i: the length matched, 0 for no match
NoneComparisonMatch(s, i) ==
    IF At(s, i, "==")
    THEN LET k == Run(s, i + 2, Whitespace)
         IN  IF At(s, i + 2 + k, "None") THEN k + 6 ELSE 0
    ELSE IF At(s, i, "None")
    THEN LET k == Run(s, i + 4, Whitespace)
         IN  IF At(s, i + 4 + k, "==") THEN k + 6 ELSE 0
    ELSE 0

\* AutoFixer._fix_none_comparison, from line i on
RECURSIVE fix_none_comparison_from(_, _)
fix_none_comparison_from(lines, i) ==
    IF i > Len(lines) THEN <<>>
    ELSE (IF Search(lines[i], NoneComparisonMatch)
          THEN <<Emit(FixSuggestion(
                    "style",
                    "Use 'is None' instead of '== None' on line " \o ToStr(i),
                    "Use 'is' for None comparison instead of '=='",
                    i, i, lines[i], Sub(lines[i], NoneComparisonMatch, "is None"),
                    10, TRUE))>>
          ELSE <<>>) \o fix_none_comparison_from(lines, i + 1)

fix_none_comparison(lines) == fix_none_comparison_from(lines, 1)

\* r'except\s*:' at position i
BareExceptMatch(s, i) ==
    IF At(s, i, "except")
    THEN LET k == Run(s, i + 6, Whitespace)
         IN  IF At(s, i + 6 + k, ":") THEN k + 7 ELSE 0
    ELSE 0

\* AutoFixer._fix_bare_except, from line i on
RECURSIVE fix_bare_except_from(_, _)
fix_bare_except_from(lines, i) ==
    IF i > Len(lines) THEN <<>>
    ELSE (IF Search(lines[i], BareExceptMatch)
          THEN <<Emit(FixSuggestion(
                    "refactor",
                    "Replace bare except on line " \o ToStr(i),
                    "Bare except catches all exceptions including system exits",
                    i, i, lines[i], Sub(lines[i], BareExceptMatch, "except Exception:"),
                    9, TRUE))>>
          ELSE <<>>) \o fix_bare_except_from(lines, i + 1)

fix_bare_except(lines) == fix_bare_except_from(lines, 1)

\* the last position of character c in s, 0 when it does not occur
LastIndexOf(s, c) ==
    IF \E i \in 1..Len(s) : CharAt(s, i) = c
    THEN CHOOSE i \in 1..Len(s) :
            CharAt(s, i) = c /\ \A j \in (i + 1)..Len(s) : CharAt(s, j) # c
    ELSE 0

\* r'for\s+(\w+)\s+in\s+(.+):' matched at position i: the groups.  Each \s+ and
\* the \w+ take their longest run; the last \s+ gives one character back to
\* (.+) when the final colon follows it directly; (.+) runs to the last colon.
ForLoopMatchAt(s, i) ==
    LET k1 == Run(s, i + 3, Whitespace)
        v == i + 3 + k1
        k2 == Run(s, v, WordChars)
        k3 == Run(s, v + k2, Whitespace)
        p == v + k2 + k3
        k4 == Run(s, p + 2, Whitespace)
        q == p + 2 + k4
        c == LastIndexOf(s, ":")
        head == At(s, i, "for") /\ k1 >= 1 /\ k2 >= 1 /\ k3 >= 1 /\ At(s, p, "in")
                /\ k4 >= 1
    IN  IF head /\ c > q
        THEN [ok |-> TRUE, var |-> Slice(s, v, v + k2 - 1), iterable |-> Slice(s, q, c - 1)]
        ELSE IF head /\ c = q /\ k4 >= 2
        THEN [ok |-> TRUE, var |-> Slice(s, v, v + k2 - 1), iterable |-> Slice(s, q - 1, q - 1)]
        ELSE [ok |-> FALSE, var |-> "", iterable |-> ""]

\* re.search of that pattern: the leftmost match
ForLoopSearch(s) ==
    IF \E i \in 1..Len(s) : ForLoopMatchAt(s, i).ok
    THEN ForLoopMatchAt(s, CHOOSE i \in 1..Len(s) :
            ForLoopMatchAt(s, i).ok /\ \A j \in 1..(i - 1) : ~ForLoopMatchAt(s, j).ok)
    ELSE [ok |-> FALSE, var |-> "", iterable |-> ""]

\* re.search(r'\.append\((.+)\)', s): the leftmost `.append(`, (.+) running to
\* the last closing parenthesis
AppendSearch(s) ==
    LET c == LastIndexOf(s, ")")
        starts == {i \in 1..Len(s) : At(s, i, ".append(") /\ c >= i + 9}
    IN  IF starts # {}
        THEN LET i == CHOOSE i \in starts : \A j \in starts : i <= j
             IN  [ok |-> TRUE, expr |-> Slice(s, i + 8, c - 1)]
        ELSE [ok |-> FALSE, expr |-> ""]

\* AutoFixer._suggest_list_comprehension, from line i on: range(len(lines) - 2)
\* stops two lines before the end; the counter is advanced before the regular
\* expressions are tried
RECURSIVE suggest_list_comprehension_from(_, _)
suggest_list_comprehension_from(lines, i) ==
    IF i > Len(lines) - 2 THEN <<>>
    ELSE (IF Contains(lines[i], "for ") /\ Contains(lines[i], " in ")
             /\ Contains(lines[i + 1], ".append(")
          THEN LET match == ForLoopSearch(lines[i])
                   append_match == AppendSearch(lines[i + 1])
               IN  IF match.ok /\ append_match.ok
                   THEN <<Emit(FixSuggestion(
                            "performance",
                            "Use list comprehension on line " \o ToStr(i),
                            "List comprehension is more Pythonic and faster",
                            i, i + 1, lines[i] \o "\n" \o lines[i + 1],
                            "    result = [" \o append_match.expr \o " for "
                                \o match.var \o " in " \o match.iterable \o "]",
                            7, FALSE))>>
                   ELSE <<Skip>>
          ELSE <<>>) \o suggest_list_comprehension_from(lines, i + 1)

suggest_list_comprehension(lines) == suggest_list_comprehension_from(lines, 1)

\* r'==(?!=)' at position i
LooseEqualityMatch(s, i) == IF At(s, i, "==") /\ ~At(s, i + 2, "=") THEN 2 ELSE 0

\* AutoFixer._fix_loose_equality, from line i on
RECURSIVE fix_loose_equality_from(_, _)
fix_loose_equality_from(lines, i) ==
    IF i > Len(lines) THEN <<>>
    ELSE (IF Search(lines[i], LooseEqualityMatch)
          THEN <<Emit(FixSuggestion(
                    "style",
                    "Use strict equality (===) on line " \o ToStr(i),
                    "Use === instead of == for strict equality",
                    i, i, lines[i], Sub(lines[i], LooseEqualityMatch, "==="),
                    10, TRUE))>>
          ELSE <<>>) \o fix_loose_equality_from(lines, i + 1)

fix_loose_equality(lines) == fix_loose_equality_from(lines, 1)

\* r'\bvar\b' at position i
VarMatch(s, i) ==
    IF /\ At(s, i, "var")
       /\ (i = 1 \/ CharAt(s, i - 1) \notin WordChars)
       /\ (i + 3 > Len(s) \/ CharAt(s, i + 3) \notin WordChars)
    THEN 3 ELSE 0

\* AutoFixer._fix_var_usage, from line i on
RECURSIVE fix_var_usage_from(_, _)
fix_var_usage_from(lines, i) ==
    IF i > Len(lines) THEN <<>>
    ELSE (IF Search(lines[i], VarMatch)
          THEN <<Emit(FixSuggestion(
                    "style",
                    "Replace 'var' with 'const' on line " \o ToStr(i),
                    "Use const or let instead of var for block scoping",
                    i, i, lines[i], Sub(lines[i], VarMatch, "const"),
                    8, FALSE))>>
          ELSE <<>>) \o fix_var_usage_from(lines, i + 1)

fix_var_usage(lines) == fix_var_usage_from(lines, 1)

\* AutoFixer._analyze_python: the detectors in their order
analyze_python(code) ==
    LET lines == Split(code)
    IN  fix_unused_imports(code, lines)
        \o fix_trailing_whitespace(lines)
        \o fix_missing_docstrings(code, lines)
        \o fix_none_comparison(lines)
        \o fix_bare_except(lines)
        \o suggest_list_comprehension(lines)

\* AutoFixer._analyze_javascript
analyze_javascript(code) ==
    LET lines == Split(code)
    IN  fix_loose_equality(lines) \o fix_var_usage(lines)

\* the hits of AutoFixer.analyze_code(code, language), in order
Hits(code, language) ==
    IF language = "python" THEN analyze_python(code)
    ELSE IF language \in {"javascript", "typescript"} THEN analyze_javascript(code)
    ELSE <<>>

\* f"fix_{self.fix_counter}"
FixId(counter) == "fix_" \o ToStr(counter)

\* the number in a fix_id
FixNumber(fix_id) == ToInt(From(fix_id, 5))

\* the detectors run from counter value `counter`: the fixes they return and
\* the counter they leave
RECURSIVE Number(_, _)
Number(hits, counter) ==
    IF hits = <<>> THEN [fixes |-> <<>>, fix_counter |-> counter]
    ELSE LET rest == Number(Tail(hits), counter + 1)
         IN  [rest EXCEPT !.fixes =
                (IF Head(hits).emits
                 THEN <<[Head(hits).fix EXCEPT !.fix_id = FixId(counter + 1)]>>
                 ELSE <<>>) \o @]

\* analyze_code as it would be if every call numbered its fixes from 1
analyze_code_FreshCounter(counter, code, language) ==
    [fixes |-> Number(Hits(code, language), 0).fixes,
     fix_counter |-> Number(Hits(code, language), 0).fix_counter,
     exc |-> ""]

\* AutoFixer.analyze_code on an instance whose fix_counter is `counter`
\* (fixes and exc are what the call returns or raises):
\* _fix_unused_imports, the first detector, catches the SyntaxError of
\* ast.parse and lets every other exception out
analyze_code(counter, code, language) ==
    IF language = "python" /\ ast_parse(code) \notin {"tree", "SyntaxError"}
    THEN [fixes |-> <<>>, fix_counter |-> counter, exc |-> ast_parse(code)]
    ELSE [fixes |-> Number(Hits(code, language), counter).fixes,
          fix_counter |-> Number(Hits(code, language), counter).fix_counter,
          exc |-> ""]

\* list[index] for a 0-based index that may be negative: the 1-based position,
\* 0 when Python raises IndexError
PyIndex(list, index) ==
    IF 0 <= index /\ index < Len(list) THEN index + 1
    ELSE IF index < 0 /\ -index <= Len(list) THEN Len(list) + index + 1
    ELSE 0

\* the list without its element at 1-based position k
Without(list, k) == SubSeq(list, 1, k - 1) \o SubSeq(list, k + 1, Len(list))

\* list.insert(index, x): the index is clamped to the list
PyInsert(list, index, x) ==
    LET at == IF index < 0
              THEN (IF Len(list) + index < 0 THEN 0 ELSE Len(list) + index)
              ELSE (IF index > Len(list) THEN Len(list) ELSE index)
    IN  SubSeq(list, 1, at) \o <<x>> \o SubSeq(list, at + 1, Len(list))

\* `for _ in range(count): lines.pop(index)`; ok is FALSE on IndexError
RECURSIVE PopTimes(_, _, _)
PopTimes(lines, index, count) ==
    IF count <= 0 THEN [ok |-> TRUE, lines |-> lines]
    ELSE IF PyIndex(lines, index) = 0 THEN [ok |-> FALSE, lines |-> lines]
    ELSE PopTimes(Without(lines, PyIndex(lines, index)), index, count - 1)

\* `for i, new_line in enumerate(new_lines): lines.insert(index + i, new_line)`
RECURSIVE InsertAll(_, _, _)
InsertAll(lines, index, new_lines) ==
    IF new_lines = <<>> THEN lines
    ELSE InsertAll(PyInsert(lines, index, Head(new_lines)), index + 1, Tail(new_lines))

\* what a call leaves: the str it returns, or the exception it raises
Returned(code) == [code |-> code, exc |-> ""]
Raised(exc) == [code |-> "", exc |-> exc]

\* apply_fix as it would be if a multi-line fix popped line_end - line_start
\* lines, leaving the last line of the range
apply_fix_KeepsRangeEnd(code, fix) ==
    LET lines == Split(code)
        index == fix.line_start - 1
    IN  IF fix.line_start = fix.line_end
        THEN IF PyIndex(lines, index) = 0 THEN Raised("IndexError")
             ELSE IF fix.after_code = ""
             THEN Returned(Join(Without(lines, PyIndex(lines, index))))
             ELSE Returned(Join([lines EXCEPT ![PyIndex(lines, index)] = fix.after_code]))
        ELSE LET popped == PopTimes(lines, index, fix.line_end - fix.line_start)
             IN  IF ~popped.ok THEN Raised("IndexError")
                 ELSE Returned(Join(InsertAll(popped.lines, index, Split(fix.after_code))))

\* AutoFixer.apply_fix(code, fix)
apply_fix(code, fix) ==
    LET lines == Split(code)
        index == fix.line_start - 1
    IN  IF fix.line_start = fix.line_end
        THEN IF PyIndex(lines, index) = 0 THEN Raised("IndexError")
             ELSE IF fix.after_code = ""
             THEN Returned(Join(Without(lines, PyIndex(lines, index))))
             ELSE Returned(Join([lines EXCEPT ![PyIndex(lines, index)] = fix.after_code]))
        ELSE LET popped == PopTimes(lines, index, fix.line_end - fix.line_start + 1)
             IN  IF ~popped.ok THEN Raised("IndexError")
                 ELSE Returned(Join(InsertAll(popped.lines, index, Split(fix.after_code))))

\* AutoFixer.validate_fix(code, language): (is_valid, error_message), the
\* message of a SyntaxError kept as the exception's name, or the exception
\* the call raises
validate_fix(code, language) ==
    IF language = "python" /\ ast_parse(code) = "SyntaxError"
    THEN [is_valid |-> FALSE, error |-> Some("SyntaxError"), exc |-> ""]
    ELSE IF language = "python" /\ ast_parse(code) # "tree"
    THEN [is_valid |-> FALSE, error |-> None, exc |-> ast_parse(code)]
    ELSE [is_valid |-> TRUE, error |-> None, exc |-> ""]

(***************************************************************************)
(* Pattern scans of the ML engine (ml_engine.py)                           *)
(***************************************************************************)

\* the compiled patterns, named by their source text: the length of the match
\* of `regex` in s at position i, 0 for no match
RegexMatch(regex, s, i) ==
    IF regex = "==\\s*None"
    THEN (IF At(s, i, "==") /\ At(s, i + 2 + Run(s, i + 2, Whitespace), "None")
          THEN Run(s, i + 2, Whitespace) + 6 ELSE 0)
    ELSE IF regex = "except\\s*:" THEN BareExceptMatch(s, i)
    ELSE IF regex = "==(?!=)" THEN LooseEqualityMatch(s, i)
    ELSE IF regex = "eval\\s*\\("
    THEN (IF At(s, i, "eval") /\ At(s, i + 4 + Run(s, i + 4, Whitespace), "(")
          THEN Run(s, i + 4, Whitespace) + 5 ELSE 0)
    ELSE IF regex = "pickle\\.loads?\\s*\\("
    THEN (IF At(s, i, "pickle.load")
          THEN LET n == IF At(s, i + 11, "s") THEN 12 ELSE 11
                   \* with the optional s taken, and on failure without it
                   withS == Run(s, i + n, Whitespace)
                   without == Run(s, i + 11, Whitespace)
               IN  IF At(s, i + n + withS, "(") THEN n + withS + 1
                   ELSE IF At(s, i + 11 + without, "(") THEN 11 + without + 1
                   ELSE 0
          ELSE 0)
    ELSE IF regex = "innerHTML\\s*="
    THEN (IF At(s, i, "innerHTML") /\ At(s, i + 9 + Run(s, i + 9, Whitespace), "=")
          THEN Run(s, i + 9, Whitespace) + 10 ELSE 0)
    ELSE 0

\* pattern['regex'].search(line)
RegexSearch(regex, line) == Search(line, LAMBDA s, i : RegexMatch(regex, s, i))

\* MLEngine._load_bug_patterns
bug_patterns ==
    [python |->
        <<[regex |-> "==\\s*None", type |-> "comparison_error",
           severity |-> "medium",
           description |-> "Use \"is None\" instead of \"== None\"",
           suggestion |-> "Replace \"== None\" with \"is None\""],
          [regex |-> "except\\s*:", type |-> "bare_except", severity |-> "high",
           description |-> "Bare except clause catches all exceptions",
           suggestion |-> "Specify exception types to catch"]>>,
     javascript |->
        <<[regex |-> "==(?!=)", type |-> "loose_equality", severity |-> "medium",
           description |->
               "Use strict equality (===) instead of loose equality (==)",
           suggestion |-> "Replace \"==\" with \"===\""]>>]

\* MLEngine._load_security_patterns
security_patterns ==
    [python |->
        <<[regex |-> "eval\\s*\\(", type |-> "code_injection",
           severity |-> "critical",
           description |-> "Use of eval() can lead to code injection",
           cwe_id |-> "CWE-95",
           fix |-> "Avoid eval(). Use ast.literal_eval() for safe evaluation"],
          [regex |-> "pickle\\.loads?\\s*\\(", type |-> "insecure_deserialization",
           severity |-> "high",
           description |-> "Pickle deserialization can execute arbitrary code",
           cwe_id |-> "CWE-502",
           fix |-> "Use JSON or other safe serialization formats"]>>,
     javascript |->
        <<[regex |-> "innerHTML\\s*=", type |-> "xss_vulnerability",
           severity |-> "high",
           description |-> "Direct innerHTML assignment can lead to XSS",
           cwe_id |-> "CWE-79",
           fix |-> "Use textContent or sanitize input before assignment"]>>]

\* patterns.get(language, [])
PatternsFor(patterns, language) ==
    IF language \in DOMAIN patterns THEN patterns[language] ELSE <<>>

BugPrediction(line_number, pattern) ==
    [line_number |-> line_number, severity |-> pattern.severity,
     bug_type |-> pattern.type, description |-> pattern.description,
     confidence |-> 8, suggestion |-> pattern.suggestion]

SecurityIssue(line_number, pattern) ==
    [line_number |-> line_number, vulnerability_type |-> pattern.type,
     description |-> pattern.description, severity |-> pattern.severity,
     cwe_id |-> pattern.cwe_id, fix_suggestion |-> pattern.fix]

\* the object of class Finding that a scan appends for a pattern and a line
NewFinding(Finding, line_number, pattern) ==
    IF Finding = "BugPrediction" THEN BugPrediction(line_number, pattern)
    ELSE SecurityIssue(line_number, pattern)

\* `for pattern in patterns: if pattern['regex'].search(line): append(...)`,
\* from pattern k on
RECURSIVE ScanLine(_, _, _, _, _)
ScanLine(line, i, patterns, Finding, k) ==
    IF k > Len(patterns) THEN <<>>
    ELSE (IF RegexSearch(patterns[k].regex, line)
          THEN <<NewFinding(Finding, i, patterns[k])>> ELSE <<>>)
         \o ScanLine(line, i, patterns, Finding, k + 1)

\* `for i, line in enumerate(lines, 1): ...`, from line i on
RECURSIVE ScanLines(_, _, _, _)
ScanLines(lines, patterns, Finding, i) ==
    IF i > Len(lines) THEN <<>>
    ELSE ScanLine(lines[i], i, patterns, Finding, 1)
         \o ScanLines(lines, patterns, Finding, i + 1)

\* MLEngine.predict_bugs(code, language)
predict_bugs(code, language) ==
    ScanLines(Split(code), PatternsFor(bug_patterns, language), "BugPrediction", 1)

\* the number of matches of `regex` in s from position i on, as finditer
\* counts them
RECURSIVE Occurrences(_, _, _)
Occurrences(regex, s, i) ==
    IF i > Len(s) THEN 0
    ELSE IF RegexMatch(regex, s, i) > 0
    THEN 1 + Occurrences(regex, s, i + RegexMatch(regex, s, i))
    ELSE Occurrences(regex, s, i + 1)

\* scan_security_vulnerabilities as it would be if it appended one issue for
\* every match on the line
RECURSIVE Times(_, _)
Times(n, x) == IF n = 0 THEN <<>> ELSE <<x>> \o Times(n - 1, x)

RECURSIVE PerOccurrenceFrom(_, _, _, _)
PerOccurrenceFrom(lines, i, patterns, k) ==
    IF i > Len(lines) THEN <<>>
    ELSE IF k > Len(patterns) THEN PerOccurrenceFrom(lines, i + 1, patterns, 1)
    ELSE Times(Occurrences(patterns[k].regex, lines[i], 1),
               SecurityIssue(i, patterns[k]))
         \o PerOccurrenceFrom(lines, i, patterns, k + 1)

scan_security_vulnerabilities_PerOccurrence(code, language) ==
    PerOccurrenceFrom(Split(code), 1, PatternsFor(security_patterns, language), 1)

\* MLEngine.scan_security_vulnerabilities(code, language)
scan_security_vulnerabilities(code, language) ==
    ScanLines(Split(code), PatternsFor(security_patterns, language),
              "SecurityIssue", 1)

\* the longest code scanned has MaxScanLines lines
MaxScanLines == 2

ScanLinePool ==
    {"x = 1", "if x == None: pass", "if None == x: pass", "if x==  None: pass",
     "except:", "except E:", "eval(user_input)", "eval (a) + eval(b)",
     "pickle.loads(d)", "pickle.load (f)", "a.innerHTML = b == c",
     "a.innerHTML= b === c"}

ScanCodes == {Join(ls) : ls \in LineSeqs(ScanLinePool, MaxScanLines)}

ScanLanguages == {"python", "javascript", "typescript"}

ScanIdle ==
    /\ ml_code = ""
    /\ ml_language = ""
    /\ ml_pc = "start"
    /\ ml_bugs = <<>>
    /\ ml_security = <<>>

ScanInit ==
    /\ ml_code \in ScanCodes
    /\ ml_language \in ScanLanguages
    /\ ml_pc = "start"
    /\ ml_bugs = <<>>
    /\ ml_security = <<>>

\* ml_bugs = ml_engine.predict_bugs(code, language)
MlPredictBugs ==
    /\ ml_pc = "start"
    /\ ml_bugs' = predict_bugs(ml_code, ml_language)
    /\ ml_pc' = "bugs"
    /\ UNCHANGED <<ml_code, ml_language, ml_security, notScan>>

\* ml_security = ml_engine.scan_security_vulnerabilities(code, language)
MlScanSecurity ==
    /\ ml_pc = "bugs"
    /\ ml_security' = scan_security_vulnerabilities(ml_code, ml_language)
    /\ ml_pc' = "security"
    /\ UNCHANGED <<ml_code, ml_language, ml_bugs, notScan>>

ScanNext == MlPredictBugs \/ MlScanSecurity

(***************************************************************************)
(* The embedding model of the ML engine (ml_engine.py)                     *)
(***************************************************************************)

\* seconds of inactivity after which the model is unloaded
MODEL_TIMEOUT == 300

\* the clock is advanced at most MaxTicks times
MaxTicks == 2

\* each caller calls get_code_embedding at most MaxEmbedCalls times
MaxEmbedCalls == 1

\* the threads that call get_code_embedding on the engine get_ml_engine returns
Callers == {1, 2}

\* self.last_used: None, or the datetime (in seconds) of the last use
NeverUsed == [some |-> FALSE, at |-> 0]
UsedAt(now) == [some |-> TRUE, at |-> now]

IdleCaller == [pc |-> "idle", calls |-> 0, result |-> "none yet"]

\* MLEngine.__init__, nobody inside a method
EngineIdle ==
    /\ en_enabled = TRUE
    /\ en_is_loaded = FALSE
    /\ en_model = "None"
    /\ en_tokenizer = "None"
    /\ en_last_used = NeverUsed
    /\ en_now = 0
    /\ en_ticks = 0
    /\ en_loads = 0
    /\ en_call = [t \in Callers |-> IdleCaller]
    /\ en_clean = "idle"

\* the same, ML_ENABLED being what the environment variable makes it
EngineInit ==
    /\ en_enabled \in BOOLEAN
    /\ en_is_loaded = FALSE
    /\ en_model = "None"
    /\ en_tokenizer = "None"
    /\ en_last_used = NeverUsed
    /\ en_now = 0
    /\ en_ticks = 0
    /\ en_loads = 0
    /\ en_call = [t \in Callers |-> IdleCaller]
    /\ en_clean = "idle"

\* time passes: a second, or more than the idle timeout
EnTick ==
    /\ en_ticks < MaxTicks
    /\ en_ticks' = en_ticks + 1
    /\ \E seconds \in {1, MODEL_TIMEOUT + 1} : en_now' = en_now + seconds
    /\ UNCHANGED <<en_enabled, en_is_loaded, en_model, en_tokenizer, en_last_used,
                   en_loads, en_call, en_clean, notEngine>>

\* caller t at `to`, the rest of its record unchanged
CallerAt(t, to) == [en_call EXCEPT ![t].pc = to]

\* get_code_embedding returns None: ML disabled, or an exception was caught
CallerReturns(t, result) ==
    [en_call EXCEPT ![t].pc = "idle", ![t].result = result]

\* get_code_embedding(code) is entered: `if not ML_ENABLED: return None`
GeEnter(t) ==
    /\ en_call[t].pc = "idle"
    /\ en_call[t].calls < MaxEmbedCalls
    /\ en_call' =
        [en_call EXCEPT ![t].calls = @ + 1,
                        ![t].pc = IF en_enabled THEN "load" ELSE "idle",
                        ![t].result = IF en_enabled THEN "none yet" ELSE "None"]
    /\ UNCHANGED <<en_enabled, en_is_loaded, en_model, en_tokenizer, en_last_used,
                   en_now, en_ticks, en_loads, en_clean, notEngine>>

\* _load_model: `if self.is_loaded: self.last_used = now; return`, else the
\* try block is entered and a load starts
LmCheck(t) ==
    /\ en_call[t].pc = "load"
    /\ IF en_is_loaded
       THEN /\ en_last_used' = UsedAt(en_now)
            /\ en_call' = CallerAt(t, "tokenize")
            /\ UNCHANGED en_loads
       ELSE /\ en_loads' = en_loads + 1
            /\ en_call' = CallerAt(t, "load_tokenizer")
            /\ UNCHANGED en_last_used
    /\ UNCHANGED <<en_enabled, en_is_loaded, en_model, en_tokenizer, en_now, en_ticks,
                   en_clean, notEngine>>

\* self.tokenizer = AutoTokenizer.from_pretrained(...)
LmLoadTokenizer(t) ==
    /\ en_call[t].pc = "load_tokenizer"
    /\ en_tokenizer' = "tokenizer"
    /\ en_call' = CallerAt(t, "load_model")
    /\ UNCHANGED <<en_enabled, en_is_loaded, en_model, en_last_used, en_now, en_ticks,
                   en_loads, en_clean, notEngine>>

\* self.model = AutoModel.from_pretrained(...); self.model.eval()
LmLoadModel(t) ==
    /\ en_call[t].pc = "load_model"
    /\ en_model' = "model"
    /\ en_call' = CallerAt(t, "loaded")
    /\ UNCHANGED <<en_enabled, en_is_loaded, en_tokenizer, en_last_used, en_now,
                   en_ticks, en_loads, en_clean, notEngine>>

\* self.is_loaded = True; self.last_used = datetime.now()
LmFinish(t) ==
    /\ en_call[t].pc = "loaded"
    /\ en_is_loaded' = TRUE
    /\ en_last_used' = UsedAt(en_now)
    /\ en_call' = CallerAt(t, "tokenize")
    /\ UNCHANGED <<en_enabled, en_model, en_tokenizer, en_now, en_ticks, en_loads,
                   en_clean, notEngine>>

\* the import or a from_pretrained raises: `except Exception: self.is_loaded =
\* False; raise`, which get_code_embedding catches to return None
LmFail(t) ==
    /\ en_call[t].pc \in {"load_tokenizer", "load_model"}
    /\ en_is_loaded' = FALSE
    /\ en_call' = CallerReturns(t, "None")
    /\ UNCHANGED <<en_enabled, en_model, en_tokenizer, en_last_used, en_now, en_ticks,
                   en_loads, en_clean, notEngine>>

\* inputs = self.tokenizer(code, ...): calling None raises TypeError, which is
\* caught
GeTokenize(t) ==
    /\ en_call[t].pc = "tokenize"
    /\ en_call' = IF en_tokenizer = "None" THEN CallerReturns(t, "None")
                  ELSE CallerAt(t, "infer")
    /\ UNCHANGED <<en_enabled, en_is_loaded, en_model, en_tokenizer, en_last_used,
                   en_now, en_ticks, en_loads, en_clean, notEngine>>

\* outputs = self.model(**inputs) is called: self.model is read
GeInfer(t) ==
    /\ en_call[t].pc = "infer"
    /\ en_call' = IF en_model = "None" THEN CallerReturns(t, "None")
                  ELSE CallerAt(t, "running")
    /\ UNCHANGED <<en_enabled, en_is_loaded, en_model, en_tokenizer, en_last_used,
                   en_now, en_ticks, en_loads, en_clean, notEngine>>

\* the forward pass ends: self.last_used = datetime.now(); return embedding[0]
GeReturn(t) ==
    /\ en_call[t].pc = "running"
    /\ en_last_used' = UsedAt(en_now)
    /\ en_call' = CallerReturns(t, "embedding")
    /\ UNCHANGED <<en_enabled, en_is_loaded, en_model, en_tokenizer, en_now, en_ticks,
                   en_loads, en_clean, notEngine>>

\* cleanup() -> _check_timeout(): the inactivity is computed and compared
CtCheck ==
    /\ en_clean = "idle"
    /\ en_clean' = IF /\ en_is_loaded
                      /\ en_last_used.some
                      /\ en_now - en_last_used.at > MODEL_TIMEOUT
                   THEN "unload" ELSE "idle"
    /\ UNCHANGED <<en_enabled, en_is_loaded, en_model, en_tokenizer, en_last_used,
                   en_now, en_ticks, en_loads, en_call, notEngine>>

\* _unload_model: `if self.is_loaded:`
UnCheck ==
    /\ en_clean = "unload"
    /\ en_clean' = IF en_is_loaded THEN "unset_model" ELSE "idle"
    /\ UNCHANGED <<en_enabled, en_is_loaded, en_model, en_tokenizer, en_last_used,
                   en_now, en_ticks, en_loads, en_call, notEngine>>

\* self.model = None
UnModel ==
    /\ en_clean = "unset_model"
    /\ en_model' = "None"
    /\ en_clean' = "unset_tokenizer"
    /\ UNCHANGED <<en_enabled, en_is_loaded, en_tokenizer, en_last_used, en_now,
                   en_ticks, en_loads, en_call, notEngine>>

\* self.tokenizer = None
UnTokenizer ==
    /\ en_clean = "unset_tokenizer"
    /\ en_tokenizer' = "None"
    /\ en_clean' = "unset_flag"
    /\ UNCHANGED <<en_enabled, en_is_loaded, en_model, en_last_used, en_now, en_ticks,
                   en_loads, en_call, notEngine>>

\* self.is_loaded = False; gc.collect()
UnFlag ==
    /\ en_clean = "unset_flag"
    /\ en_is_loaded' = FALSE
    /\ en_clean' = "idle"
    /\ UNCHANGED <<en_enabled, en_model, en_tokenizer, en_last_used, en_now, en_ticks,
                   en_loads, en_call, notEngine>>

EngineNext ==
    \/ EnTick
    \/ \E t \in Callers :
        \/ GeEnter(t) \/ LmCheck(t) \/ LmLoadTokenizer(t) \/ LmLoadModel(t)
        \/ LmFinish(t) \/ LmFail(t) \/ GeTokenize(t) \/ GeInfer(t) \/ GeReturn(t)
    \/ CtCheck \/ UnCheck \/ UnModel \/ UnTokenizer \/ UnFlag

(***************************************************************************)
(* The style profile merge (style_learner.py)                              *)
(***************************************************************************)

\* at most MaxMerges update_user_profile calls are made for a user
MaxMerges == 11

StyleUsers == {1, 2}

\* the keys of pattern_data, in the order of the dict literal
PatternTypes ==
    <<"naming", "indentation", "quotes", "line_length", "comments", "imports">>

\* pattern_data of a StylePatterns object
pattern_data(patterns) ==
    [pattern_type \in {PatternTypes[i] : i \in 1..Len(PatternTypes)} |->
        CASE pattern_type = "naming" -> patterns.naming_convention
          [] pattern_type = "indentation" -> patterns.indentation
          [] pattern_type = "quotes" -> patterns.quote_style
          [] pattern_type = "line_length" -> patterns.line_length
          [] pattern_type = "comments" -> patterns.comment_style
          [] pattern_type = "imports" -> patterns.import_style]

\* the StylePatterns objects the merge is run with
StylePatternsPool ==
    { [naming_convention |-> naming, indentation |-> "{type: spaces, size: 4}",
       quote_style |-> quotes, line_length |-> 40, comment_style |-> "above",
       import_style |-> "grouped"] :
        naming \in {"snake_case", "camelCase"}, quotes \in {"single", "double"} }

\* query(StylePattern).filter(user_id == ..., pattern_type == ...).first():
\* the index of the first matching row, 0 when none
FirstRow(rows, user_id, pattern_type, i) ==
    LET Matching == {j \in i..Len(rows) : /\ rows[j].user_id = user_id
                                          /\ rows[j].pattern_type = pattern_type}
    IN IF Matching = {} THEN 0 ELSE CHOOSE j \in Matching : \A k \in Matching : j <= k

\* min(1.0, existing.frequency / 10.0), in tenths
Confidence_Uncapped(frequency) == frequency

Confidence(frequency) == IF frequency < 10 THEN frequency ELSE 10

\* StylePattern(user_id, pattern_type, pattern_value, frequency=1,
\* confidence=0.1); the confidence is in tenths
StylePattern(user_id, pattern_type, pattern_value) ==
    [user_id |-> user_id, pattern_type |-> pattern_type,
     pattern_value |-> pattern_value, frequency |-> 1, confidence |-> 1]

\* the body of the loop over pattern_data.items() from the k-th key on: the
\* rows the session holds as updated, and the rows it holds as added
RECURSIVE MergeFrom(_, _, _, _, _)
MergeFrom(rows, added, user_id, data, k) ==
    IF k > Len(PatternTypes) THEN [rows |-> rows, added |-> added]
    ELSE LET pattern_type == PatternTypes[k]
             existing == FirstRow(rows, user_id, pattern_type, 1)
         IN IF existing # 0
            THEN MergeFrom(
                    [rows EXCEPT ![existing].frequency = @ + 1,
                                 ![existing].confidence =
                                      Confidence(rows[existing].frequency + 1)],
                    added, user_id, data, k + 1)
            ELSE MergeFrom(rows,
                    Append(added, StylePattern(user_id, pattern_type, data[pattern_type])),
                    user_id, data, k + 1)

\* update_user_profile as it would be if an existing entry took the value of
\* the new snapshot
update_user_profile_Overwriting(rows, user_id, patterns) ==
    LET merged == MergeFrom(rows, <<>>, user_id, pattern_data(patterns), 1)
        data == pattern_data(patterns)
    IN [i \in 1..Len(merged.rows) |->
            IF merged.rows[i].user_id = user_id
            THEN [merged.rows[i] EXCEPT !.pattern_value = data[merged.rows[i].pattern_type]]
            ELSE merged.rows[i]] \o merged.added

\* update_user_profile(user_id, patterns, db_session) on a session that holds
\* nothing else: the table after db_session.commit()
update_user_profile(rows, user_id, patterns) ==
    LET merged == MergeFrom(rows, <<>>, user_id, pattern_data(patterns), 1)
    IN merged.rows \o merged.added

\* no row, no call made; sp_call holds the arguments of the last call
StyleIdle ==
    /\ sp_profile = <<>>
    /\ sp_merges = [user_id \in StyleUsers |-> 0]
    /\ sp_call = <<>>

StyleInit == StyleIdle

\* one submission's merge, from its first query to its commit
UpdateUserProfile ==
    \E user_id \in StyleUsers, patterns \in StylePatternsPool :
        /\ sp_merges[user_id] < MaxMerges
        /\ sp_profile' = update_user_profile(sp_profile, user_id, patterns)
        /\ sp_merges' = [sp_merges EXCEPT ![user_id] = @ + 1]
        /\ sp_call' = <<user_id, patterns>>
        /\ UNCHANGED notStyle

StyleNext == UpdateUserProfile

(***************************************************************************)
(* The scans on the shared engine, beside the embedding model              *)
(***************************************************************************)

\* at most MaxEngineScans scans are run on the engine
MaxEngineScans == 1

CodeSmell(line_number, smell_type, description, severity, refactoring_suggestion) ==
    [line_number |-> line_number, smell_type |-> smell_type,
     description |-> description, severity |-> severity,
     refactoring_suggestion |-> refactoring_suggestion]

\* the deep-nesting loop of detect_code_smells, from line i on
RECURSIVE DeepNestingFrom(_, _)
DeepNestingFrom(lines, i) ==
    IF i > Len(lines) THEN <<>>
    ELSE (IF Len(lines[i]) - Len(LStrip(lines[i])) > 16
          THEN <<CodeSmell(i, "deep_nesting",
                           "Deep nesting detected. Reduces readability.", "medium",
                           "Consider early returns or extracting methods")>>
          ELSE <<>>) \o DeepNestingFrom(lines, i + 1)

\* MLEngine.detect_code_smells(code, language)
detect_code_smells(code, language) ==
    LET lines == Split(code)
    IN  (IF Len(lines) > 50
         THEN <<CodeSmell(1, "long_function",
                    "Function is too long (>50 lines). Consider breaking it down.",
                    "medium", "Extract smaller functions for better readability")>>
         ELSE <<>>) \o DeepNestingFrom(lines, 1)

\* a code of n empty lines
RECURSIVE EmptyLines(_)
EmptyLines(n) == IF n <= 1 THEN "" ELSE "\n" \o EmptyLines(n - 1)

\* what is scanned on the shared engine: (code, language)
EngineScanInputs ==
    {<<"eval(a)\nif x == None: pass", "python">>,
     <<"a.innerHTML = b == c", "javascript">>,
     <<Spaces(17) \o "x = 1", "python">>,
     <<EmptyLines(51), "java">>}

NoFindings == [bugs |-> <<>>, smells |-> <<>>, security |-> <<>>]

\* MLEngine.__init__: the tables are loaded; no scan made
EngineScanIdle ==
    /\ es_bug_patterns = bug_patterns
    /\ es_security_patterns = security_patterns
    /\ es_scans = 0
    /\ es_code = ""
    /\ es_language = ""
    /\ es_findings = NoFindings
    /\ es_loaded = FALSE

EngineScanInit == EngineScanIdle

\* a scan that would stamp the model as used, as _load_model does
EsScan_Touching ==
    /\ es_scans < MaxEngineScans
    /\ \E input \in EngineScanInputs :
        LET code == input[1]
            language == input[2]
        IN
        /\ es_code' = code
        /\ es_language' = language
        /\ es_findings' =
            [bugs |-> ScanLines(Split(code), PatternsFor(es_bug_patterns, language),
                                "BugPrediction", 1),
             smells |-> detect_code_smells(code, language),
             security |-> ScanLines(Split(code),
                                    PatternsFor(es_security_patterns, language),
                                    "SecurityIssue", 1)]
    /\ es_scans' = es_scans + 1
    /\ es_loaded' = en_is_loaded
    /\ en_last_used' = UsedAt(en_now)
    /\ UNCHANGED <<es_bug_patterns, es_security_patterns,
                   detectVars, analyzeVars, fixerVars, applyVars, composeVars,
                   noneFixVars, scanVars, styleVars, submitVars,
                   en_enabled, en_is_loaded, en_model, en_tokenizer, en_now,
                   en_ticks, en_loads, en_call, en_clean>>

\* predict_bugs, detect_code_smells and scan_security_vulnerabilities on the
\* shared engine, as submit_code calls them: they read self.bug_patterns and
\* self.security_patterns and assign no attribute of the engine
EsScan ==
    /\ es_scans < MaxEngineScans
    /\ \E input \in EngineScanInputs :
        LET code == input[1]
            language == input[2]
        IN
        /\ es_code' = code
        /\ es_language' = language
        /\ es_findings' =
            [bugs |-> ScanLines(Split(code), PatternsFor(es_bug_patterns, language),
                                "BugPrediction", 1),
             smells |-> detect_code_smells(code, language),
             security |-> ScanLines(Split(code),
                                    PatternsFor(es_security_patterns, language),
                                    "SecurityIssue", 1)]
    /\ es_scans' = es_scans + 1
    /\ es_loaded' = en_is_loaded
    /\ UNCHANGED <<es_bug_patterns, es_security_patterns, notEngineScan>>

\* the caller of get_code_embedding beside which the scans run
EmbeddingCallers == {CHOOSE t \in Callers : TRUE}

EngineScanNext ==
    \/ EsScan
    \/ EnTick
    \/ \E t \in EmbeddingCallers :
        \/ GeEnter(t) \/ LmCheck(t) \/ LmLoadTokenizer(t) \/ LmLoadModel(t)
        \/ LmFinish(t) \/ LmFail(t) \/ GeTokenize(t) \/ GeInfer(t) \/ GeReturn(t)
    \/ CtCheck \/ UnCheck \/ UnModel \/ UnTokenizer \/ UnFlag

(***************************************************************************)
(* The submit pipeline (routers/analysis.py)                               *)
(***************************************************************************)

\* at most MaxSubmits requests are made
MaxSubmits == 1

\* current_user.id
CurrentUser == 1

SubmitCodes ==
    {"x = 1",
     "if x == None: pass",
     "var a = b == c;",
     "const type = 1;",
     "const f = (a) => {b: 1}",
     "private int x;"}

SubmitHints == {None, Some("cpp"), Some("TypeScript")}

\* static_results.issues, as the linter run made them
SubmitIssues ==
    {<<>>,
     <<[severity |-> "error"]>>,
     <<[severity |-> "warning"], [severity |-> "info"], [message |-> "m"]>>}

NoResponse == [status |-> 0, score |-> 0]

\* the committed rows
Database == [snippets |-> sb_snippets, results |-> sb_results, profile |-> sb_profile]

\* sum(severity_weights.get(issue.get("severity", "info"), 1) for issue in issues)
RECURSIVE weighted_deduction(_)
weighted_deduction(issues) ==
    IF issues = <<>> THEN 0
    ELSE LET severity_weights == [error |-> 5, warning |-> 2, info |-> 1]
         IN  Get(severity_weights, Get(Head(issues), "severity", "info"), 1)
             + weighted_deduction(Tail(issues))

\* final_score = max(0.0, base_score - deduction)
final_score(issues, bug_count) ==
    LET deduction == weighted_deduction(issues) + bug_count * 5
    IN  IF 100 - deduction > 0 THEN 100 - deduction ELSE 0

\* no request made, an empty database
SubmitIdle ==
    /\ sb_count = 0
    /\ sb_pc = "idle"
    /\ sb_code = ""
    /\ sb_hint = None
    /\ sb_locals = {}
    /\ sb_lang = ""
    /\ sb_static = [language |-> "", issues |-> <<>>]
    /\ sb_ml_bugs = <<>>
    /\ sb_snippets = <<>>
    /\ sb_results = <<>>
    /\ sb_profile = <<>>
    /\ sb_before = [snippets |-> <<>>, results |-> <<>>, profile |-> <<>>]
    /\ sb_response = NoResponse

SubmitInit == SubmitIdle

\* POST /analysis/submit arrives
SbRequest ==
    /\ sb_pc = "idle"
    /\ sb_count < MaxSubmits
    /\ sb_count' = sb_count + 1
    /\ \E code \in SubmitCodes, hint \in SubmitHints :
        /\ sb_code' = code
        /\ sb_hint' = hint
    /\ sb_locals' = {"snippet", "current_user", "db"}
    /\ sb_lang' = ""
    /\ sb_static' = [language |-> "", issues |-> <<>>]
    /\ sb_ml_bugs' = <<>>
    /\ sb_before' = Database
    /\ sb_response' = NoResponse
    /\ sb_pc' = "detect"
    /\ UNCHANGED <<sb_snippets, sb_results, sb_profile, notSubmit>>

\* 1. detected_lang = language_analyzer.detect_language(code, hint=...)
SbDetect ==
    /\ sb_pc = "detect"
    /\ sb_lang' = detect_language(sb_code, sb_hint)
    /\ sb_locals' = sb_locals \cup {"detected_lang"}
    /\ sb_pc' = "save"
    /\ UNCHANGED <<sb_count, sb_code, sb_hint, sb_static, sb_ml_bugs, sb_snippets,
                   sb_results, sb_profile, sb_before, sb_response, notSubmit>>

\* 2. db.add(db_snippet); db.commit(); db.refresh(db_snippet)
SbSaveSnippet ==
    /\ sb_pc = "save"
    /\ sb_snippets' = Append(sb_snippets,
            [id |-> Len(sb_snippets) + 1, user_id |-> CurrentUser,
             code_content |-> sb_code, language |-> sb_lang])
    /\ sb_locals' = sb_locals \cup {"db_snippet"}
    /\ sb_pc' = "get_analyzer"
    /\ UNCHANGED <<sb_count, sb_code, sb_hint, sb_lang, sb_static, sb_ml_bugs,
                   sb_results, sb_profile, sb_before, sb_response, notSubmit>>

\* 3. analyzer = get_analyzer(detected_lang); its ValueError is answered with
\* 400, without a rollback
SbGetAnalyzer ==
    /\ sb_pc = "get_analyzer"
    /\ IF get_analyzer(sb_lang) = "ValueError"
       THEN /\ sb_response' = [status |-> 400, score |-> 0]
            /\ sb_pc' = "idle"
            /\ UNCHANGED sb_locals
       ELSE /\ sb_locals' = sb_locals \cup {"analyzer"}
            /\ sb_pc' = "analyze"
            /\ UNCHANGED sb_response
    /\ UNCHANGED <<sb_count, sb_code, sb_hint, sb_lang, sb_static, sb_ml_bugs,
                   sb_snippets, sb_results, sb_profile, sb_before, notSubmit>>

\* static_results = analyzer.analyze(code): the language tag the analyzer
\* sets and the issues of the linter run; or the OSError of the temporary
\* file, answered with 500 after db.rollback() (the session holds nothing)
SbAnalyze ==
    /\ sb_pc = "analyze"
    /\ \/ /\ \E issues \in SubmitIssues :
                sb_static' =
                    [language |-> IF get_analyzer(sb_lang) = "PythonAnalyzer"
                                  THEN "python"
                                  ELSE IF IsTypescript(sb_code) THEN "typescript"
                                  ELSE "javascript",
                     issues |-> issues]
          /\ sb_locals' = sb_locals \cup {"static_results"}
          /\ sb_pc' = "scan"
          /\ UNCHANGED sb_response
       \/ /\ sb_response' = [status |-> 500, score |-> 0]
          /\ sb_pc' = "idle"
          /\ UNCHANGED <<sb_static, sb_locals>>
    /\ UNCHANGED <<sb_count, sb_code, sb_hint, sb_lang, sb_ml_bugs, sb_snippets,
                   sb_results, sb_profile, sb_before, notSubmit>>

\* 4. ml_bugs, ml_smells, ml_security = the three scans of the ML engine
SbScan ==
    /\ sb_pc = "scan"
    /\ sb_ml_bugs' = predict_bugs(sb_code, sb_lang)
    /\ sb_locals' = sb_locals \cup {"ml_engine", "ml_bugs", "ml_smells", "ml_security"}
    /\ sb_pc' = "fix"
    /\ UNCHANGED <<sb_count, sb_code, sb_hint, sb_lang, sb_static, sb_snippets,
                   sb_results, sb_profile, sb_before, sb_response, notSubmit>>

\* 5. fix_suggestions = auto_fixer.analyze_code(code, detected_lang.value) on
\* the shared AutoFixer, whose counter advances
SbAutoFix ==
    /\ sb_pc = "fix"
    /\ LET r == analyze_code(fix_counter, sb_code, sb_lang)
       IN  /\ fix_counter' = r.fix_counter
           /\ IF r.exc # ""
              THEN /\ sb_response' = [status |-> 500, score |-> 0]
                   /\ sb_pc' = "idle"
                   /\ UNCHANGED sb_locals
              ELSE /\ sb_locals' = sb_locals \cup {"auto_fixer", "fix_suggestions"}
                   /\ sb_pc' = "style"
                   /\ UNCHANGED sb_response
    /\ UNCHANGED <<sb_count, sb_code, sb_hint, sb_lang, sb_static, sb_ml_bugs,
                   sb_snippets, sb_results, sb_profile, sb_before,
                   fx_calls, fx_code, fx_language, fx_fixes, fx_exc, fx_ids, th,
                   detectVars, analyzeVars, applyVars, composeVars, noneFixVars,
                   scanVars, engineVars, styleVars, engineScanVars>>

\* 6. patterns = extract_patterns(...); update_user_profile(current_user.id,
\* patterns, db), which commits
SbLearnStyle ==
    /\ sb_pc = "style"
    /\ \E patterns \in StylePatternsPool :
        sb_profile' = update_user_profile(sb_profile, CurrentUser, patterns)
    /\ sb_locals' = sb_locals \cup {"style_learner", "patterns"}
    /\ sb_pc' = "score"
    /\ UNCHANGED <<sb_count, sb_code, sb_hint, sb_lang, sb_static, sb_ml_bugs,
                   sb_snippets, sb_results, sb_before, sb_response, notSubmit>>

\* 7. the score and the result row.  `bug_count = len(bugs)` reads a name:
\* when nothing has bound it, the NameError reaches `except Exception`, which
\* rolls the session back (it holds nothing uncommitted) and answers 500
SbScoreAndSave ==
    /\ sb_pc = "score"
    /\ IF "bugs" \notin sb_locals
       THEN /\ sb_response' = [status |-> 500, score |-> 0]
            /\ UNCHANGED sb_results
       ELSE LET score == final_score(sb_static.issues, Len(sb_ml_bugs))
            IN  /\ sb_results' = Append(sb_results,
                        [id |-> Len(sb_results) + 1,
                         snippet_id |-> sb_snippets[Len(sb_snippets)].id,
                         score |-> score])
                /\ sb_response' = [status |-> 200, score |-> score]
    /\ sb_pc' = "idle"
    /\ UNCHANGED <<sb_count, sb_code, sb_hint, sb_locals, sb_lang, sb_static,
                   sb_ml_bugs, sb_snippets, sb_profile, sb_before, notSubmit>>

SubmitNext ==
    \/ SbRequest \/ SbDetect \/ SbSaveSnippet \/ SbGetAnalyzer \/ SbAnalyze
    \/ SbScan \/ SbAutoFix \/ SbLearnStyle \/ SbScoreAndSave

\* at most MaxCalls analyze_code calls are made one after another
MaxCalls == 2

\* the longest code of the apply_fix runs has MaxApplyLines lines
MaxApplyLines == 3

\* snippets that make every detector hit, and some that make none
FixerSnippets ==
    {"",
     "import os\nx = 1 ",
     "import os\nprint(os.name)",
     "import os\nx = 1 \ndef f(): pass\ntry: pass\nexcept: pass\nif x == None: pass",
     "def f(): pass\nif x == None: pass",
     "try: pass\nexcept: pass",
     "for i in xs:\n    ys.append(i)\nx = 1",
     "x = 1\nfor i in xs:\n    ys.append(i)",
     "for (a, b) in ps:\n    ys.append(a)\n   ",
     "x = (\ny = 2  ",
     "if x == None: pass \nexcept: pass\nfor i in xs:\n    ys.append(i)\n",
     "import os \nx = '\\ud800'",
     "var x = a == b;",
     "if (a === b) {}"}

FixerLanguages == {"python", "javascript", "typescript", "java"}

\* the callers that share the instance
Threads == {1, 2}

\* what the concurrent callers analyze
ConcurrentSnippets ==
    {"x = 1",
     "import os\nx = 1 ",
     "for (a, b) in ps:\n    ys.append(a)\nx = 1 "}

IdleThread == [pc |-> "idle", code |-> "", hits |-> <<>>, fixes |-> <<>>]

\* AutoFixer.__init__, no call made yet
FixerInit ==
    /\ fix_counter = 0
    /\ fx_calls = 0
    /\ fx_code = ""
    /\ fx_language = ""
    /\ fx_fixes = <<>>
    /\ fx_exc = ""
    /\ fx_ids = <<>>
    /\ th = [t \in Threads |-> IdleThread]

\* fixes = auto_fixer.analyze_code(code, language), run to its end
FxAnalyzeCode ==
    /\ fx_calls < MaxCalls
    /\ \E code \in FixerSnippets, language \in FixerLanguages :
        LET r == analyze_code(fix_counter, code, language)
        IN  /\ fix_counter' = r.fix_counter
            /\ fx_code' = code
            /\ fx_language' = language
            /\ fx_fixes' = r.fixes
            /\ fx_exc' = r.exc
            /\ fx_ids' = fx_ids \o [i \in 1..Len(r.fixes) |-> r.fixes[i].fix_id]
    /\ fx_calls' = fx_calls + 1
    /\ UNCHANGED <<th, notFixer>>

FixerNext == FxAnalyzeCode

\* caller t enters analyze_code(code, "python"): the detectors will hit at
\* Hits(code, "python"), whatever the other caller does
ThCall(t) ==
    /\ th[t].pc = "idle"
    /\ \E code \in ConcurrentSnippets :
        th' = [th EXCEPT ![t] = [pc |-> "run", code |-> code,
                                 hits |-> Hits(code, "python"), fixes |-> <<>>]]
    /\ UNCHANGED <<fix_counter, fx_calls, fx_code, fx_language, fx_fixes, fx_exc, fx_ids,
                   notFixer>>

\* self.fix_counter += 1 at caller t's next hit
ThIncrement(t) ==
    /\ th[t].pc = "run"
    /\ th[t].hits # <<>>
    /\ fix_counter' = fix_counter + 1
    /\ th' = [th EXCEPT ![t] =
                IF Head(th[t].hits).emits THEN [@ EXCEPT !.pc = "build"]
                ELSE [@ EXCEPT !.hits = Tail(@)]]
    /\ UNCHANGED <<fx_calls, fx_code, fx_language, fx_fixes, fx_exc, fx_ids, notFixer>>

\* fixes.append(FixSuggestion(fix_id=f"fix_{self.fix_counter}", ...)): the
\* counter is read again, after whatever the other caller did in between
ThBuild(t) ==
    /\ th[t].pc = "build"
    /\ th' = [th EXCEPT ![t] =
                [@ EXCEPT !.pc = "run",
                          !.hits = Tail(@),
                          !.fixes = Append(@, [Head(th[t].hits).fix EXCEPT
                                                !.fix_id = FixId(fix_counter)])]]
    /\ UNCHANGED <<fix_counter, fx_calls, fx_code, fx_language, fx_fixes, fx_exc, fx_ids,
                   notFixer>>

\* return fixes
ThReturn(t) ==
    /\ th[t].pc = "run"
    /\ th[t].hits = <<>>
    /\ th' = [th EXCEPT ![t].pc = "done"]
    /\ UNCHANGED <<fix_counter, fx_calls, fx_code, fx_language, fx_fixes, fx_exc, fx_ids,
                   notFixer>>

ConcurrentNext ==
    \E t \in Threads : ThCall(t) \/ ThIncrement(t) \/ ThBuild(t) \/ ThReturn(t)

ApplyLinePool == {"x = 1", "x = 1 ", "import os", "   ", ""}

ApplyCodes == {Join(ls) : ls \in LineSeqs(ApplyLinePool, MaxApplyLines)}

\* the after_code of the fixes a caller makes up
AfterCodes == {"", "z", "p\nq"}

NoFix == FixSuggestion("", "", "", 0, 0, "", "", 0, FALSE)

ApplyIdle ==
    /\ ap_code = ""
    /\ ap_fix = NoFix
    /\ ap_pc = "start"
    /\ ap_once = Returned("")
    /\ ap_twice = Returned("")

ApplyInit ==
    /\ ap_code \in ApplyCodes
    /\ ap_fix = NoFix
    /\ ap_pc = "start"
    /\ ap_once = Returned("")
    /\ ap_twice = Returned("")

\* the caller takes one of the fixes analyze_code(code, "python") returns
ApPickGenerated ==
    /\ ap_pc = "start"
    /\ \E f \in {analyze_code(0, ap_code, "python").fixes[i] :
                    i \in 1..Len(analyze_code(0, ap_code, "python").fixes)} :
        ap_fix' = f
    /\ ap_pc' = "picked"
    /\ UNCHANGED <<ap_code, ap_once, ap_twice, notApply>>

\* the caller builds a FixSuggestion of its own, also one whose range does
\* not lie in the code
ApPickAny ==
    /\ ap_pc = "start"
    /\ \E line_start \in 1..(Len(Split(ap_code)) + 1) :
       \E line_end \in line_start..(Len(Split(ap_code)) + 1) :
       \E after \in AfterCodes :
        ap_fix' = [FixSuggestion("simple", "t", "d", line_start, line_end, "b", after,
                                 5, TRUE) EXCEPT !.fix_id = "fix_0"]
    /\ ap_pc' = "picked"
    /\ UNCHANGED <<ap_code, ap_once, ap_twice, notApply>>

\* apply_fix(code, fix)
ApApply ==
    /\ ap_pc = "picked"
    /\ ap_once' = apply_fix(ap_code, ap_fix)
    /\ ap_pc' = "once"
    /\ UNCHANGED <<ap_code, ap_fix, ap_twice, notApply>>

\* apply_fix(apply_fix(code, fix), fix)
ApApplyAgain ==
    /\ ap_pc = "once"
    /\ ap_once.exc = ""
    /\ ap_twice' = apply_fix(ap_once.code, ap_fix)
    /\ ap_pc' = "twice"
    /\ UNCHANGED <<ap_code, ap_fix, ap_once, notApply>>

ApplyNext == ApPickGenerated \/ ApPickAny \/ ApApply \/ ApApplyAgain

\* the longest code whose fixes are applied in both orders has MaxComposeLines
\* lines
MaxComposeLines == 2

ComposeLinePool ==
    {"import os", "x = 1", "x = 1 ", "if x == None: pass ", "var x = a == b;"}

ComposeCodes == {Join(ls) : ls \in LineSeqs(ComposeLinePool, MaxComposeLines)}

ComposeIdle ==
    /\ co_code = ""
    /\ co_language = ""
    /\ co_f = NoFix
    /\ co_g = NoFix
    /\ co_pc = "start"
    /\ co_fg = Returned("")
    /\ co_gf = Returned("")

ComposeInit ==
    /\ co_code \in ComposeCodes
    /\ co_language \in {"python", "javascript"}
    /\ co_f = NoFix
    /\ co_g = NoFix
    /\ co_pc = "start"
    /\ co_fg = Returned("")
    /\ co_gf = Returned("")

\* fixes = analyze_code(code, language); the caller takes two of them
CoPickPair ==
    /\ co_pc = "start"
    /\ LET fixes == analyze_code(0, co_code, co_language).fixes
       IN  \E i, j \in 1..Len(fixes) :
            /\ i < j
            /\ co_f' = fixes[i]
            /\ co_g' = fixes[j]
    /\ co_pc' = "picked"
    /\ UNCHANGED <<co_code, co_language, co_fg, co_gf, notCompose>>

\* apply_fix(a, b), where a is what a call returned or raised
ThenApply(a, fix) == IF a.exc # "" THEN a ELSE apply_fix(a.code, fix)

\* apply_fix(apply_fix(code, f), g)
CoApplyFG ==
    /\ co_pc = "picked"
    /\ co_fg' = ThenApply(apply_fix(co_code, co_f), co_g)
    /\ co_pc' = "fg"
    /\ UNCHANGED <<co_code, co_language, co_f, co_g, co_gf, notCompose>>

\* apply_fix(apply_fix(code, g), f)
CoApplyGF ==
    /\ co_pc = "fg"
    /\ co_gf' = ThenApply(apply_fix(co_code, co_g), co_f)
    /\ co_pc' = "done"
    /\ UNCHANGED <<co_code, co_language, co_f, co_g, co_fg, notCompose>>

ComposeNext == CoPickPair \/ CoApplyFG \/ CoApplyGF

\* the longest code of the None-comparison runs has MaxNoneLines lines
MaxNoneLines == 2

NoneLinePool ==
    {"x = 1", "import os", "if x == None: pass", "if None == x: pass",
     "if x==None: pass", "if f(x) == None: pass", "if f(x) is None: pass", "if x is None: pass",
     "x = None==None", "    x = 1"}

NoneCodes == {Join(ls) : ls \in LineSeqs(NoneLinePool, MaxNoneLines)}

NoneFixIdle ==
    /\ nc_code = ""
    /\ nc_fix = NoFix
    /\ nc_pc = "start"
    /\ nc_fixed = Returned("")
    /\ nc_valid = validate_fix("", "python")

NoneFixInit ==
    /\ nc_code \in NoneCodes
    /\ nc_fix = NoFix
    /\ nc_pc = "start"
    /\ nc_fixed = Returned("")
    /\ nc_valid = validate_fix("", "python")

\* the caller takes a None-comparison fix that analyze_code(code, "python")
\* returns
NcPick ==
    /\ nc_pc = "start"
    /\ LET fixes == analyze_code(0, nc_code, "python").fixes
       IN  \E i \in 1..Len(fixes) :
            /\ StartsWith(fixes[i].title, "Use 'is None'")
            /\ nc_fix' = fixes[i]
    /\ nc_pc' = "picked"
    /\ UNCHANGED <<nc_code, nc_fixed, nc_valid, notNoneFix>>

\* fixed = apply_fix(code, fix)
NcApply ==
    /\ nc_pc = "picked"
    /\ nc_fixed' = apply_fix(nc_code, nc_fix)
    /\ nc_pc' = "applied"
    /\ UNCHANGED <<nc_code, nc_fix, nc_valid, notNoneFix>>

\* validate_fix(fixed, "python")
NcValidate ==
    /\ nc_pc = "applied"
    /\ nc_fixed.exc = ""
    /\ nc_valid' = validate_fix(nc_fixed.code, "python")
    /\ nc_pc' = "validated"
    /\ UNCHANGED <<nc_code, nc_fix, nc_fixed, notNoneFix>>

NoneFixNext == NcPick \/ NcApply \/ NcValidate

(***************************************************************************)
(* Specifications                                                          *)
(***************************************************************************)

\* detect_language and get_analyzer on every code and hint of the pools
InitDetect == DetectInit /\ AnalyzeIdle /\ FixerInit /\ ApplyIdle /\ ComposeIdle /\ NoneFixIdle /\ ScanIdle /\ EngineIdle /\ StyleIdle /\ EngineScanIdle /\ SubmitIdle

SpecDetect == InitDetect /\ [][DetectNext]_vars

\* one analyze call of either analyzer, over every outcome of the linter
InitAnalyze == AnalyzeInit /\ DetectIdle /\ FixerInit /\ ApplyIdle /\ ComposeIdle /\ NoneFixIdle /\ ScanIdle /\ EngineIdle /\ StyleIdle /\ EngineScanIdle /\ SubmitIdle

SpecAnalyze == InitAnalyze /\ [][AnalyzeNext]_vars

\* analyze_code calls made one after another on one AutoFixer
InitFixer == FixerInit /\ DetectIdle /\ AnalyzeIdle /\ ApplyIdle /\ ComposeIdle /\ NoneFixIdle /\ ScanIdle /\ EngineIdle /\ StyleIdle /\ EngineScanIdle /\ SubmitIdle

SpecFixer == InitFixer /\ [][FixerNext]_vars

\* two callers inside analyze_code on the shared AutoFixer at the same time,
\* as the thread pool that serves submit_code runs them
SpecFixerConcurrent == InitFixer /\ [][ConcurrentNext]_vars

\* apply_fix applied to a code once and twice
InitApply == ApplyInit /\ DetectIdle /\ AnalyzeIdle /\ FixerInit /\ ComposeIdle /\ NoneFixIdle /\ ScanIdle /\ EngineIdle /\ StyleIdle /\ EngineScanIdle /\ SubmitIdle

SpecApply == InitApply /\ [][ApplyNext]_vars

\* two fixes of one analyze_code call applied in both orders
InitCompose == ComposeInit /\ DetectIdle /\ AnalyzeIdle /\ FixerInit /\ ApplyIdle /\ NoneFixIdle /\ ScanIdle /\ EngineIdle /\ StyleIdle /\ EngineScanIdle /\ SubmitIdle

SpecCompose == InitCompose /\ [][ComposeNext]_vars

\* a None-comparison fix applied to its code and the result validated
InitNoneFix ==
    /\ NoneFixInit /\ DetectIdle /\ AnalyzeIdle /\ FixerInit /\ ApplyIdle
    /\ ComposeIdle /\ ScanIdle /\ EngineIdle /\ StyleIdle /\ EngineScanIdle /\ SubmitIdle

SpecNoneFix == InitNoneFix /\ [][NoneFixNext]_vars

\* the bug scan and the security scan of one code
InitScan ==
    /\ ScanInit /\ DetectIdle /\ AnalyzeIdle /\ FixerInit /\ ApplyIdle
    /\ ComposeIdle /\ NoneFixIdle /\ EngineIdle /\ StyleIdle /\ EngineScanIdle /\ SubmitIdle

SpecScan == InitScan /\ [][ScanNext]_vars

\* callers of get_code_embedding and of cleanup on the shared engine, with
\* nothing serializing them
InitEngine ==
    /\ EngineInit /\ DetectIdle /\ AnalyzeIdle /\ FixerInit /\ ApplyIdle
    /\ ComposeIdle /\ NoneFixIdle /\ ScanIdle /\ StyleIdle /\ EngineScanIdle /\ SubmitIdle

SpecEngine == InitEngine /\ [][EngineNext]_vars

\* update_user_profile calls made one after another, each on its own session
InitStyle ==
    /\ StyleInit /\ DetectIdle /\ AnalyzeIdle /\ FixerInit /\ ApplyIdle
    /\ ComposeIdle /\ NoneFixIdle /\ ScanIdle /\ EngineIdle /\ EngineScanIdle /\ SubmitIdle

SpecStyle == InitStyle /\ [][StyleNext]_vars

\* scans run on the shared engine while its embedding model is loaded, used
\* and evicted by other callers
InitEngineScan ==
    /\ EngineScanInit /\ EngineInit /\ DetectIdle /\ AnalyzeIdle /\ FixerInit
    /\ ApplyIdle /\ ComposeIdle /\ NoneFixIdle /\ ScanIdle /\ StyleIdle /\ SubmitIdle

SpecEngineScan == InitEngineScan /\ [][EngineScanNext]_vars

\* a caller inside get_code_embedding goes on to its next statement
CallerRuns(t) ==
    \/ LmCheck(t) \/ LmLoadTokenizer(t) \/ LmLoadModel(t) \/ LmFinish(t)
    \/ GeTokenize(t) \/ GeInfer(t) \/ GeReturn(t)

\* the same engine as it is scheduled: threads inside a call run on and time
\* passes, and a cleanup() call that has started the unload runs on; nothing
\* in the program calls cleanup() (no timer, no background task, no shutdown
\* hook), so no cleanup() call is ever due
EngineFairness ==
    /\ \A t \in Callers : WF_vars(CallerRuns(t))
    /\ WF_vars(EnTick)
    /\ WF_vars(UnCheck \/ UnModel \/ UnTokenizer \/ UnFlag)

SpecEngineLive == InitEngine /\ [][EngineNext]_vars /\ EngineFairness

\* submit_code requests served one after another
InitSubmit ==
    /\ SubmitInit /\ DetectIdle /\ AnalyzeIdle /\ FixerInit /\ ApplyIdle
    /\ ComposeIdle /\ NoneFixIdle /\ ScanIdle /\ EngineIdle /\ StyleIdle
    /\ EngineScanIdle

SpecSubmit == InitSubmit /\ [][SubmitNext]_vars

(***************************************************************************)
(* Claims about language detection and dispatch                            *)
(***************************************************************************)

\* C1: once detect_language has returned, a hint whose lower-cased text is a
\* Language tag is the result, whatever the code contains.
C1_HintPrecedence ==
    (dpc # "start" /\ dhint.some /\ Lower(dhint.val) \in Language)
        => dlang = Lower(dhint.val)

\* a mixed-case hint that contradicts a Python marker in the code has won
C1_Witness ==
    /\ dpc = "detected"
    /\ dhint = Some("JAVA")
    /\ Contains(dcode, "def ")
    /\ dlang = "java"

\* the rules of C2 in their order; each is <<tag, condition>>
C2_Rules(code) ==
    LET js == Contains(code, "function ") \/ Contains(code, "const ")
              \/ Contains(code, "let ") \/ Contains(code, "var ")
        ts == Contains(code, "interface ")
              \/ (Contains(code, ": ") /\ Contains(code, "=>"))
    IN  << <<"python", Contains(code, "def ")>>,
           <<"python", Contains(code, "import ")>>,
           <<"python", Contains(code, "class ") /\ Contains(code, ":")>>,
           <<"typescript", js /\ ts>>,
           <<"javascript", js>>,
           <<"java", Contains(code, "public class ")>>,
           <<"java", Contains(code, "private ")>>,
           <<"java", Contains(code, "void main")>>,
           <<"cpp", Contains(code, "#include")>>,
           <<"cpp", Contains(code, "std::")>>,
           <<"cpp", Contains(code, "cout")>>,
           <<"python", TRUE>> >>

C2_FirstMatch(code) ==
    LET rules == C2_Rules(code)
        first == CHOOSE i \in 1..Len(rules) :
                    rules[i][2] /\ \A j \in 1..(i - 1) : ~rules[j][2]
    IN  rules[first][1]

\* C2: without a hint that names a Language, the result is the tag of the first
\* rule, in the order Python, JavaScript/TypeScript, Java, C++, that matches the
\* code, and python when none does.
C2_RuleOrder ==
    (dpc # "start" /\ ~(dhint.some /\ Lower(dhint.val) \in Language))
        => dlang = C2_FirstMatch(dcode)

\* `class ` without `:` is no Python marker, so a later rule decided
C2_Witness ==
    /\ dpc = "detected"
    /\ dhint = Some("ruby")
    /\ Contains(dcode, "class ")
    /\ ~Contains(dcode, ":")
    /\ dlang = "java"

\* C3: get_analyzer returns an analyzer exactly for python, javascript and
\* typescript, and raises the unsupported-language ValueError for java and cpp.
C3_AnalyzerDispatch ==
    dpc = "done" =>
        /\ dlang = "python" => danalyzer = "PythonAnalyzer"
        /\ dlang \in {"javascript", "typescript"} => danalyzer = "JavaScriptAnalyzer"
        /\ dlang \in {"java", "cpp"} => danalyzer = "ValueError"
        /\ danalyzer # "ValueError" => dlang \in {"python", "javascript", "typescript"}

\* a detected C++ snippet was refused
C3_Witness ==
    /\ dpc = "done"
    /\ dlang = "cpp"
    /\ ~dhint.some
    /\ danalyzer = "ValueError"

(***************************************************************************)
(* Claims about the static analyzers                                       *)
(***************************************************************************)

\* C4: when analyze has ended, by returning or by raising, no temporary file
\* it created exists any more.
C4_NoTempFileLeft == an_pc \in {"returned", "raised"} => an_files = {}

\* the metrics calculate_complexity gives for the analyzed code
AnExpectedMetrics ==
    IF an_kind = "python" THEN PyComplexity(an_code)
    ELSE JsComplexity(an_code, an_is_typescript)

\* the external tool failed: timeout, binary missing, or malformed output
AnToolFailed ==
    \/ an_proc.how \in {"TimeoutExpired", "FileNotFoundError"}
    \/ an_proc.how = "completed" /\ an_proc.json = "invalid"

\* C5: when analyze returns with error set because the external tool failed,
\* complexity_metrics holds the counts computed from the code.
C5_MetricsOnToolFailure ==
    (an_pc = "returned" /\ an_result.error # "" /\ AnToolFailed)
        => an_result.complexity_metrics = AnExpectedMetrics

\* C6: once the linter has been run, whatever its outcome, analyze raises
\* nothing and goes on to return its result; a timeout leaves the error
\* "Analysis timed out" and no issues, a missing binary an install hint, and
\* output that is not JSON a parse-error message.
C6_LinterOutcomesRecovered ==
    an_proc.how # "" =>
        /\ an_exc = ""
        /\ an_pc \in {"finally", "returned"}
        /\ an_proc.how = "TimeoutExpired" =>
            an_result.error = "Analysis timed out" /\ an_result.issues = <<>>
        /\ an_proc.how = "FileNotFoundError" =>
            Contains(an_result.error, "Install with: ")
        /\ (an_proc.how = "completed" /\ an_proc.json = "invalid") =>
            Contains(an_result.error, "Failed to parse")

\* a timed-out pylint run was turned into a returned result
C6_Witness ==
    /\ an_pc = "returned"
    /\ an_kind = "python"
    /\ an_proc.how = "TimeoutExpired"
    /\ an_result.error = "Analysis timed out"
    /\ an_result.issues = <<>>

(***************************************************************************)
(* Claims about the auto-fixer                                             *)
(***************************************************************************)

\* the detectors of _analyze_python in the order they run, by the title each
\* gives its fixes
DetectorTitles ==
    <<"Remove unused import", "Remove trailing whitespace", "Add docstring",
      "Use 'is None'", "Replace bare except", "Use list comprehension">>

DetectorRank(fix) ==
    CHOOSE k \in 1..Len(DetectorTitles) : StartsWith(fix.title, DetectorTitles[k])

\* C7: over analyze_code calls made one after another on one AutoFixer, the
\* fix_ids returned so far are pairwise distinct and strictly increasing in
\* the order the fixes were generated, within a call and across calls, and a
\* python call returns its fixes in detector order.
C7_FixIdsIncrease ==
    /\ \A i, j \in 1..Len(fx_ids) :
        i < j => /\ fx_ids[i] # fx_ids[j]
                 /\ FixNumber(fx_ids[i]) < FixNumber(fx_ids[j])
    /\ \A i \in 1..Len(fx_fixes) :
        fx_fixes[i].fix_id = fx_ids[Len(fx_ids) - Len(fx_fixes) + i]
    /\ fx_language = "python" =>
        \A i, j \in 1..Len(fx_fixes) :
            i < j => DetectorRank(fx_fixes[i]) <= DetectorRank(fx_fixes[j])

\* a second call returned several fixes of different detectors after a first
\* call that returned some
C7_Witness ==
    /\ fx_calls = 2
    /\ fx_language = "python"
    /\ Len(fx_fixes) >= 2
    /\ Len(fx_ids) > Len(fx_fixes)
    /\ DetectorRank(fx_fixes[1]) < DetectorRank(fx_fixes[Len(fx_fixes)])
    /\ FixNumber(fx_fixes[1].fix_id) > 1

\* every fix either caller has got so far, caller 1's first
ConcurrentFixes == th[1].fixes \o th[2].fixes

\* C8: when two analyze_code calls run at the same time on one shared
\* AutoFixer, with nothing serializing them, no two of the FixSuggestions they
\* return carry the same fix_id.
C8_ConcurrentIdsDistinct ==
    \A i, j \in 1..Len(ConcurrentFixes) :
        i # j => ConcurrentFixes[i].fix_id # ConcurrentFixes[j].fix_id

\* the fix is one _fix_trailing_whitespace made for a line of the code
IsTrailingWhitespaceFix ==
    /\ ap_fix.line_start \in 1..Len(Split(ap_code))
    /\ \E h \in {fix_trailing_whitespace(Split(ap_code))[i] :
                    i \in 1..Len(fix_trailing_whitespace(Split(ap_code)))} :
        h.emits /\ [h.fix EXCEPT !.fix_id = ap_fix.fix_id] = ap_fix

\* C9: for every line the trailing-whitespace detector flags, applying its fix
\* and then applying the same fix again to the result yields the same code as
\* applying it once.
C9_TrailingWhitespaceIdempotent ==
    (IsTrailingWhitespaceFix /\ ap_pc = "twice") => ap_twice = ap_once

\* the code apply_fix is to return for a fix whose range lies in the code
SplicedCode ==
    LET lines == Split(ap_code)
        before == SubSeq(lines, 1, ap_fix.line_start - 1)
        later == SubSeq(lines, ap_fix.line_end + 1, Len(lines))
        replacement ==
            IF ap_fix.line_start = ap_fix.line_end
            THEN (IF ap_fix.after_code = "" THEN <<>> ELSE <<ap_fix.after_code>>)
            ELSE Split(ap_fix.after_code)
    IN  Join(before \o replacement \o later)

\* C10: apply_fix(code, fix) with 1 <= line_start <= line_end <= number of
\* lines raises nothing and returns the code whose lines before line_start and
\* after line_end are unchanged and in order, with the range replaced in
\* place: by nothing for a single-line fix with empty after_code, by
\* after_code for a single-line fix, and by the lines of after_code for a
\* multi-line fix.
C10_ApplyFixSplices ==
    (/\ ap_pc \in {"once", "twice"}
     /\ 1 <= ap_fix.line_start
     /\ ap_fix.line_start <= ap_fix.line_end
     /\ ap_fix.line_end <= Len(Split(ap_code)))
        => ap_once = Returned(SplicedCode)

\* a two-line range in the middle of the code was replaced by two other lines
C10_Witness ==
    /\ ap_pc = "once"
    /\ Len(Split(ap_code)) = 3
    /\ ap_fix.line_start = 1
    /\ ap_fix.line_end = 2
    /\ ap_fix.after_code = "p\nq"
    /\ ap_once = Returned(Join(<<"p", "q", Split(ap_code)[3]>>))

\* lines line_start..line_end of `mid` are the lines the fix was made for in
\* `code`
EditsItsLines(code, mid, fix) ==
    /\ mid.exc = ""
    /\ fix.line_end <= Len(Split(mid.code))
    /\ SubSeq(Split(mid.code), fix.line_start, fix.line_end)
        = SubSeq(Split(code), fix.line_start, fix.line_end)

\* C11: any two fixes f and g of one analyze_code call can be applied in
\* either order with the same result, and after the one is applied the other
\* still edits the lines it was made for.
C11_FixesCompose ==
    co_pc = "done" =>
        /\ co_fg = co_gf
        /\ co_fg.exc = ""
        /\ EditsItsLines(co_code, apply_fix(co_code, co_f), co_g)
        /\ EditsItsLines(co_code, apply_fix(co_code, co_g), co_f)

\* C12: for Python code that parses and compares with None as `x == None` or
\* `None == x`, the None-comparison fix rewrites the comparison into an
\* `is None` test (no `== None` or `None ==` is left on the line) and the code
\* with the fix applied is accepted by validate_fix.
C12_NoneFixParses ==
    (nc_pc = "validated" /\ PyParses(nc_code)) =>
        /\ Contains(nc_fix.after_code, " is None")
        /\ ~Search(nc_fix.after_code, NoneComparisonMatch)
        /\ nc_valid.is_valid

\* the detector that made a fix, read off its title
IsFixOf(fix, title) == StartsWith(fix.title, title)

\* C13: every FixSuggestion analyze_code returns has a confidence between 0
\* and 1 (0 to 10 tenths); docstring, comprehension and var-to-const
\* suggestions are never auto-applicable, and an auto-applicable fix is an
\* unused-import fix (0.9), a trailing-whitespace fix (1.0), a None-comparison
\* fix (1.0), a bare-except fix to `except Exception:` (0.9) or a
\* loose-equality fix (1.0).
C13_AutoApplicable ==
    \A i \in 1..Len(fx_fixes) :
        LET fix == fx_fixes[i]
        IN  /\ fix.confidence \in 0..10
            /\ (\/ IsFixOf(fix, "Add docstring")
                \/ IsFixOf(fix, "Use list comprehension")
                \/ IsFixOf(fix, "Replace 'var'")) => ~fix.auto_applicable
            /\ fix.auto_applicable =>
                \/ IsFixOf(fix, "Remove unused import") /\ fix.confidence = 9
                \/ IsFixOf(fix, "Remove trailing whitespace") /\ fix.confidence = 10
                \/ IsFixOf(fix, "Use 'is None'") /\ fix.confidence = 10
                \/ /\ IsFixOf(fix, "Replace bare except")
                   /\ fix.confidence = 9
                   /\ Contains(fix.after_code, "except Exception:")
                \/ IsFixOf(fix, "Use strict equality") /\ fix.confidence = 10

\* one call returned an auto-applicable bare-except fix and a docstring
\* suggestion that is not auto-applicable
C13_Witness ==
    /\ \E i \in 1..Len(fx_fixes) :
        /\ IsFixOf(fx_fixes[i], "Replace bare except")
        /\ fx_fixes[i].auto_applicable
        /\ fx_fixes[i].after_code = "except Exception: pass"
    /\ \E i \in 1..Len(fx_fixes) :
        IsFixOf(fx_fixes[i], "Add docstring") /\ ~fx_fixes[i].auto_applicable

\* the fixes without their ids
Unnumbered(fixes) == [i \in 1..Len(fixes) |-> [fixes[i] EXCEPT !.fix_id = ""]]

\* the fixes the hits of a detector build
Emitted(hits) == [i \in 1..Len(hits) |-> hits[i].fix]

\* what the text-based detectors return for the lines, in the order
\* _analyze_python runs them
TextDetectorFixes(lines) ==
    Emitted(fix_trailing_whitespace(lines))
    \o Emitted(fix_none_comparison(lines))
    \o Emitted(fix_bare_except(lines))
    \o Emitted(SelectSeq(suggest_list_comprehension(lines), LAMBDA h : h.emits))

\* C14: for Python code that does not parse, analyze_code raises nothing, the
\* syntax-tree detectors contribute no fix, and the fixes returned are exactly
\* those the text-based detectors return for the lines.
C14_UnparsedCodeStillFixed ==
    (fx_calls > 0 /\ fx_language = "python" /\ ast_parse(fx_code) # "tree") =>
        /\ fx_exc = ""
        /\ Unnumbered(fx_fixes) = TextDetectorFixes(Split(fx_code))

(***************************************************************************)
(* Claims about the pattern scans of the ML engine                         *)
(***************************************************************************)

\* how many of the findings equal `finding`
CountOf(findings, finding) ==
    Cardinality({k \in 1..Len(findings) : findings[k] = finding})

\* the finding the bug scan is to make for a rule on line i
ExpectedBug(i, type, severity) ==
    [line_number |-> i, severity |-> severity, bug_type |-> type,
     description |-> bug_patterns.python[IF type = "comparison_error" THEN 1 ELSE 2]
                        .description,
     confidence |-> 8,
     suggestion |-> bug_patterns.python[IF type = "comparison_error" THEN 1 ELSE 2]
                        .suggestion]

\* C15: the Python bug scan makes one comparison_error finding (medium, 0.8)
\* for every line with `== None` or `None ==`, one bare_except finding (high,
\* 0.8) for every line with a bare `except:`, and no other finding.
C15_BugScanRules ==
    (ml_pc # "start" /\ ml_language = "python") =>
        LET lines == Split(ml_code)
        IN  /\ \A i \in 1..Len(lines) :
                /\ CountOf(ml_bugs, ExpectedBug(i, "comparison_error", "medium"))
                    = (IF Search(lines[i], NoneComparisonMatch) THEN 1 ELSE 0)
                /\ CountOf(ml_bugs, ExpectedBug(i, "bare_except", "high"))
                    = (IF Search(lines[i], BareExceptMatch) THEN 1 ELSE 0)
            /\ \A k \in 1..Len(ml_bugs) :
                \E i \in 1..Len(lines) :
                    ml_bugs[k] \in {ExpectedBug(i, "comparison_error", "medium"),
                                    ExpectedBug(i, "bare_except", "high")}

\* every finding of the security scan is the issue of a rule of the language
\* on a line of the code
SecurityFindingsAreOfRules ==
    \A k \in 1..Len(ml_security) :
        \E i \in 1..Len(Split(ml_code)) :
        \E n \in 1..Len(PatternsFor(security_patterns, ml_language)) :
            ml_security[k]
                = SecurityIssue(i, PatternsFor(security_patterns, ml_language)[n])

\* C16 as stated: a line on which a rule of the language matches k times
\* contributes k SecurityIssues of that rule.
C16_IssuePerOccurrence ==
    ml_pc = "security" =>
        /\ SecurityFindingsAreOfRules
        /\ \A i \in 1..Len(Split(ml_code)) :
           \A n \in 1..Len(PatternsFor(security_patterns, ml_language)) :
            LET pattern == PatternsFor(security_patterns, ml_language)[n]
            IN  CountOf(ml_security, SecurityIssue(i, pattern))
                    = Occurrences(pattern.regex, Split(ml_code)[i], 1)

\* C16, amended: a line on which a rule of the language matches, however many
\* times, contributes exactly one SecurityIssue of that rule, and a line on
\* which it does not match contributes none.
C16_IssuePerLineAndRule ==
    ml_pc = "security" =>
        /\ SecurityFindingsAreOfRules
        /\ \A i \in 1..Len(Split(ml_code)) :
           \A n \in 1..Len(PatternsFor(security_patterns, ml_language)) :
            LET pattern == PatternsFor(security_patterns, ml_language)[n]
            IN  CountOf(ml_security, SecurityIssue(i, pattern))
                    = (IF Occurrences(pattern.regex, Split(ml_code)[i], 1) > 0
                       THEN 1 ELSE 0)

\* a line with two eval( calls was scanned and yielded one code_injection
\* issue
C16_Witness ==
    /\ ml_pc = "security"
    /\ ml_language = "python"
    /\ ml_code = "eval (a) + eval(b)"
    /\ Occurrences("eval\\s*\\(", ml_code, 1) = 2
    /\ Len(ml_security) = 1
    /\ ml_security[1].vulnerability_type = "code_injection"
    /\ ml_security[1].severity = "critical"
    /\ ml_security[1].cwe_id = "CWE-95"

\* caller t is inside the try block of _load_model
IsLoading(t) == en_call[t].pc \in {"load_tokenizer", "load_model", "loaded"}

\* C17: model load is idempotent under concurrency: a caller that arrives
\* while a load is in progress or completed starts no second one, so no two
\* loads are ever in progress together and none starts while the model is
\* loaded.
C17_SingleLoad ==
    /\ Cardinality({t \in Callers : IsLoading(t)}) <= 1
    /\ \A t \in Callers : IsLoading(t) => ~en_is_loaded

\* caller t is between its load step and the end of its inference
InFlight(t) == en_call[t].pc \in {"tokenize", "infer", "running"}

\* C18: while a get_code_embedding call is in flight, past its load step, no
\* eviction has set model or tokenizer to None.
C18_NoEvictionInFlight ==
    (\E t \in Callers : InFlight(t)) =>
        en_model # "None" /\ en_tokenizer # "None"

\* the rows of the table that belong to user_id and pattern_type
RowsOf(user_id, pattern_type) ==
    SelectSeq(sp_profile, LAMBDA row : /\ row.user_id = user_id
                                       /\ row.pattern_type = pattern_type)

\* C19: after n >= 1 merges made one after another for a user who had no
\* entry, the table holds exactly one entry of the user for each of the six
\* pattern types, with frequency n and confidence min(1.0, n/10) (here in
\* tenths: n up to the tenth merge, 10 from then on).
C19_ProfileAfterMerges ==
    \A user_id \in StyleUsers :
        LET n == sp_merges[user_id]
        IN /\ n = 0 => \A k \in 1..Len(PatternTypes) :
                           RowsOf(user_id, PatternTypes[k]) = <<>>
           /\ n >= 1 =>
                /\ Len(SelectSeq(sp_profile, LAMBDA row : row.user_id = user_id)) = 6
                /\ \A k \in 1..Len(PatternTypes) :
                    LET entries == RowsOf(user_id, PatternTypes[k])
                    IN /\ Len(entries) = 1
                       /\ entries[1].frequency = n
                       /\ entries[1].confidence = (IF n < 10 THEN n ELSE 10)
                       /\ entries[1].confidence <= 10

\* one user merged past the tenth time, whose confidence is capped, and one
\* merged once
C19_Witness ==
    /\ sp_merges[1] = 11
    /\ sp_merges[2] = 1
    /\ RowsOf(1, "naming")[1].confidence = 10
    /\ RowsOf(2, "imports")[1].confidence = 1

\* the comprehension suggestions among fixes that start at line i
ComprehensionsAt(fixes, i) ==
    SelectSeq(fixes, LAMBDA fix : /\ IsFixOf(fix, "Use list comprehension")
                                  /\ fix.line_start = i)

\* lines i and i + 1 are a `for x in y:` line and a line with `.append(...)`
IsLoopAppendPair(lines, i) ==
    ForLoopSearch(lines[i]).ok /\ AppendSearch(lines[i + 1]).ok

\* C20: a Python analysis holds exactly one comprehension suggestion
\* (line_start = i, line_end = i + 1, confidence 0.7, here 7 tenths) for every
\* pair of adjacent lines i, i + 1 that is a `for x in y:` line followed by a
\* line with `.append(...)`, the last two lines of the snippet included, and
\* none for any other pair.
C20_SuggestionPerPair ==
    (fx_calls >= 1 /\ fx_language = "python" /\ fx_exc = "") =>
        LET lines == Split(fx_code)
        IN  \A i \in 1..(Len(lines) - 1) :
                LET found == ComprehensionsAt(fx_fixes, i)
                IN  IF IsLoopAppendPair(lines, i)
                    THEN /\ Len(found) = 1
                         /\ found[1].line_end = i + 1
                         /\ found[1].confidence = 7
                    ELSE found = <<>>

\* the findings of the three passes as functions of (code, language) and the
\* built-in tables alone
FindingsOf(code, language) ==
    [bugs |-> predict_bugs(code, language),
     smells |-> detect_code_smells(code, language),
     security |-> scan_security_vulnerabilities(code, language)]

IdleLoaded ==
    /\ en_is_loaded
    /\ en_last_used.some
    /\ en_now - en_last_used.at > MODEL_TIMEOUT

\* C22: a loaded model that stays unused for more than the idle timeout is
\* eventually unloaded; a model used within the last MODEL_TIMEOUT seconds is
\* not unloaded by the timeout check.
C22_IdleModelEvicted ==
    /\ IdleLoaded ~> (~en_is_loaded \/ ~IdleLoaded)
    /\ [][en_model # "None" /\ en_model' = "None" =>
            en_now - en_last_used.at > MODEL_TIMEOUT]_vars

\* the first half of C22 alone: the idle model is eventually unloaded
C22_EventuallyUnloaded == IdleLoaded ~> (~en_is_loaded \/ ~IdleLoaded)

\* the request in progress has been answered
Answered == sb_pc = "idle" /\ sb_count >= 1

\* the analysis steps of the answered request all completed: it got as far
\* as the style update
AnalysisCompleted == Answered /\ "patterns" \in sb_locals

\* C23: a submission in a supported language whose analysis steps complete
\* is answered with a stored analysis result whose score is max(0, 100 - the
\* severity weights of the static issues - 5 for each heuristic bug finding),
\* a number between 0 and 100.
C23_ScoreStoredAndReturned ==
    AnalysisCompleted =>
        /\ sb_response.status = 200
        /\ sb_response.score =
                final_score(sb_static.issues, Len(predict_bugs(sb_code, sb_lang)))
        /\ sb_response.score \in 0..100
        /\ \E i \in 1..Len(sb_results) :
                /\ sb_results[i].snippet_id = sb_snippets[Len(sb_snippets)].id
                /\ sb_results[i].score = sb_response.score

\* a two-character `==` operator at position i of s: not a part of `===`,
\* `!==` or `!=`
IsLooseEqualityAt(s, i) ==
    /\ At(s, i, "==")
    /\ ~At(s, i + 2, "=")
    /\ (i = 1 \/ CharAt(s, i - 1) \notin {"=", "!"})

HasLooseEquality(s) == \E i \in 1..Len(s) : IsLooseEqualityAt(s, i)

\* C24: for JavaScript/TypeScript code, a loose-equality fix and a
\* loose_equality bug finding are made only for a line that holds a genuine
\* two-character `==` operator; a line whose equality operators are all
\* `===` or `!==` gets neither.
C24_StrictEqualityNotReported ==
    (fx_calls >= 1 /\ fx_language \in {"javascript", "typescript"}) =>
        LET lines == Split(fx_code)
            bugs == predict_bugs(fx_code, fx_language)
        IN  /\ \A k \in 1..Len(fx_fixes) :
                IsFixOf(fx_fixes[k], "Use strict equality")
                    => HasLooseEquality(lines[fx_fixes[k].line_start])
            /\ \A k \in 1..Len(bugs) :
                bugs[k].bug_type = "loose_equality"
                    => HasLooseEquality(lines[bugs[k].line_number])

\* C25: applying a trailing-whitespace fix changes only the flagged line,
\* which becomes its right-trimmed text: the code keeps its number of lines
\* and every other line, also when the flagged line is all whitespace.
C25_WhitespaceFixKeepsOtherLines ==
    (IsTrailingWhitespaceFix /\ ap_pc \in {"once", "twice"}) =>
        LET lines == Split(ap_code)
            fixed == Split(ap_once.code)
        IN  /\ ap_once.exc = ""
            /\ Len(fixed) = Len(lines)
            /\ \A i \in 1..Len(lines) :
                fixed[i] = IF i = ap_fix.line_start THEN RStrip(lines[i]) ELSE lines[i]

\* C26: fix_counter equals the number of FixSuggestions the instance has
\* returned so far, and the ids issued are fix_1, fix_2, ... in order, with no
\* gap.
C26_CounterCountsFixes ==
    /\ fix_counter = Len(fx_ids)
    /\ \A k \in 1..Len(fx_ids) : fx_ids[k] = "fix_" \o ToStr(k)

\* C27: the bug scan and the security scan of a code with language
\* typescript give the findings they give for it with language javascript.
C27_TypescriptScannedAsJavascript ==
    (ml_pc = "security" /\ ml_language = "typescript") =>
        /\ ml_bugs = predict_bugs(ml_code, "javascript")
        /\ ml_security = scan_security_vulnerabilities(ml_code, "javascript")

\* the request went through analyzer.analyze of the JavaScript analyzer
JsAnalyzed ==
    /\ "static_results" \in sb_locals
    /\ sb_lang \in {"javascript", "typescript"}

\* C28: for a JavaScript or TypeScript submission the language tag of the
\* AnalysisResult that analyze returns equals the language detect_language
\* chose.
C28_AnalyzerTagIsDetected == JsAnalyzed => sb_static.language = sb_lang

\* C28, amended: the tag is the analyzer's own choice, typescript exactly
\* when the code holds one of its markers, whatever detect_language chose;
\* the detected language is the one stored with the snippet.
C28_AnalyzerTagIsSelfDetected ==
    JsAnalyzed =>
        /\ sb_static.language =
            IF \E marker \in {"interface ", "type ", ": string", ": number",
                              ": boolean", "<T>", "as ", "enum "} :
                    Contains(sb_code, marker)
            THEN "typescript" ELSE "javascript"
        /\ sb_snippets[Len(sb_snippets)].language = sb_lang

\* the analyzer tagged as typescript a code detected as javascript
C28_Witness ==
    /\ JsAnalyzed
    /\ sb_lang = "javascript"
    /\ sb_static.language = "typescript"

\* C29: a submission answered with an error leaves the committed rows as
\* they were before the request, and once a request is answered every
\* persisted snippet has an analysis result.
C29_ErrorLeavesNoRows ==
    Answered =>
        /\ sb_response.status # 200 => Database = sb_before
        /\ \A i \in 1..Len(sb_snippets) :
                \E j \in 1..Len(sb_results) :
                    sb_results[j].snippet_id = sb_snippets[i].id

====
